---- MODULE Spec2Model ----
(***************************************************************************)
(* A model of the request plane of mini-gateway: the route matchers (trie, *)
(* trie+regexp, regexp), the load balancers (round robin, weighted round   *)
(* robin, ketama, consul), the HTTP proxy's canary filter, the leaky       *)
(* bucket limiter and the hot-reload controller.                           *)
(*                                                                         *)
(* Every subsystem has its own variables and its own specification         *)
(* (SpecLeaky, SpecRR, ...): the variables of the other subsystems keep    *)
(* their initial value there.                                              *)
(***************************************************************************)
EXTENDS Integers, Sequences, FiniteSets, TLC

VARIABLES
    \* LeakyBucketLimiter (internal/core/routing/interface.go, package traffic)
    capacity,       \* l.capacity: the burst the limiter was built with
    queue,          \* len(l.queue): the entries held by the buffered channel
    mutex,          \* l.mutex: Free, LeakTask or the caller that holds it
    stopChan,       \* TRUE once close(l.stopChan) has run
    leakPc,         \* startLeak's position: "select", "lock", "locked", "stopped"
    allowPc,        \* per caller, Allow's position: "idle", "locked"
    allowResult,    \* per caller, what its last Allow returned: "none" (no call
                    \* yet), "true" or "false"
    \* RoundRobin (internal/core/loadbalancer, unnamed/part_015)
    rrCounter,      \* rr.counter, a uint32 kept as two 16-bit halves [hi, lo]
    rrN,            \* len(targets): the fixed list the callers pass
    rrPc,           \* per caller, SelectTarget's position: "idle", "added"
    rrCount,        \* per caller, the count atomic.AddUint32 returned to it
    rrCalls,        \* history: the calls that returned, less rrN for every
                    \* full round made before the first state
    rrSelected,     \* history: per index, how often it was returned, less one
                    \* for every such round
    rrStarted,      \* history: the calls begun since the first state
    \* WeightedRoundRobin (internal/core/loadbalancer/weighted_round_robin.go)
    wrrStates,      \* wrr.states: path -> [targets, weights, totalWeight, currentCount]
    wrrRun,         \* history: per path with state, the candidate list and the
                    \* results of the latest run of consecutive calls with one
                    \* candidate list
    wrrCalls,       \* history: the calls made
    \* Trie (internal/core/routing, unnamed/part_009)
    trieNodes,      \* the nodes reachable from t.Root, each named by the
                    \* characters that lead to it: node -> [Rules, IsEnd]
    trieRegistered, \* history: pattern without its leading "/" -> the rules
                    \* of the latest Insert of it
    trieInserts,    \* history: the Insert calls made
    \* TrieRegexp (internal/core/routing/trie_regexp.go)
    trrNodes,       \* the nodes reachable from t.Root:
                    \* node -> [Rules, IsEnd, Regex, RegexPattern]
    trrStatic,      \* history: static pattern without its leading "/" ->
                    \* the rules of the latest Insert of it
    trrRegexes,     \* history: the regex patterns inserted (compiled without
                    \* error), in order, as [pattern, rules]
    trrInserts,     \* history: the Insert calls made
    trrResponse,    \* the last response of the routing middleware
    \* RegexpRouter (internal/core/routing/regexp.go)
    reCfg,          \* cfg.Routing.Rules: pattern -> rules
    reRules,        \* rr.rules: pattern -> compiled expression
    reInstalled,    \* Setup has installed the routing middleware
    reResponse,     \* the last request's path and response
    rePrev,         \* history: the request before it and its response
    \* HTTPProxy (internal/core/routing/utils.go)
    hpRules,        \* the rules of the route the handler was created for
    hpLoadBalancer, \* hp.loadBalancer: the balancer and its state
    hpCalls,        \* history: the requests handled
    hpResponse,     \* the last request and what the handler did with it
    \* Server and hot reload (unnamed/part_000)
    srvEngines,     \* the gin engines made so far, engine k by reload k
                    \* (0: initServer): [cfg, chain, routes]
    srvRouter,      \* s.Router: the engine the Server points to
    srvServing,     \* the engine the HTTP listener runs, NotStarted before
    srvExited,      \* os.Exit(1) was called
    lbTypeWord,     \* hp.loadBalancer, the interface value's type word:
                    \* the policy of the balancer it was set from
    lbDataWord,     \* hp.loadBalancer, the interface value's data word:
                    \* the balancer made by reload k
    hcTargets,      \* the health checker's targets: set by reload k
    reloadPc,       \* where refreshConfig stands
    reloadsDone,    \* history: the snapshots refreshConfig has processed
    rqPc,           \* where the request in flight stands
    rqObs,          \* history: what the last request has observed
    \* Breaker (unnamed/part_017)
    brErrorRate,    \* cfg.Traffic.Breaker.ErrorRate, in hundredths
    brMaxConcurrent,\* cfg.Traffic.Breaker.MaxConcurrent
    brActive,       \* the command's tickets in use: requests inside run
    brAttempts,     \* the command's rolling metrics: requests
    brErrs,         \* the command's rolling metrics: errors
    brOpen,         \* the command's circuit is open
    brTrial,        \* the sleep window has passed: one test request may run
    brPc,           \* where each request stands in the middleware
    brStatus,       \* the answer to each caller's last request, 0 before
    brFallback,     \* history: the fallback answered the caller's last request
    brTimedOut,     \* history: some request ran longer than the timeout
    brLate,         \* request -> its run is still going after the timeout
    brWriters,      \* request -> who has written its response
    \* Ketama (internal/core/loadbalancer/ketame.go)
    ktReplicas,     \* k.replicas
    ktHash,         \* the MD5-based hash of every string that gets hashed
    ktNodes,        \* k.nodes
    ktHashRing,     \* k.hashRing
    ktHashMap,      \* k.hashMap
    ktPc,           \* where each SelectTarget call stands
    ktCall,         \* the arguments of each call: targets, req.RemoteAddr
    ktResponse,     \* the last call that returned, and what it returned
    ktRemoved,      \* history: the target the last rebuild dropped from
                    \* the ring, when all it did was drop one target
    \* HealthChecker (unnamed/part_004)
    targetStats,    \* h.targetStats: host -> TargetStatus
    hcCfg,          \* h.cfg: the routing rules of the configuration
    hcTicks,        \* history: the heartbeat checks made
    hcForwarded,    \* history: the calls of UpdateRequestCount
    hcRefreshes,    \* history: the reloads (RefreshTargets after the first)
    hcDown,         \* history: the hosts in the table from the start on
                    \* that no heartbeat check has reached
    hcLast,         \* history: the status last reported for every host
                    \* that has been in the table
    \* Middleware chain (unnamed/part_000, setupMiddleware and setupRoutes)
    mwCfg,          \* the switches of cfg.Middleware
    mwRoutes,       \* path -> the handlers chain gin combined for the route
    mwPath,         \* the path of the request being served
    mwIndex,        \* position of the request in its chain, 0 when none runs
    mwTrace,        \* the stages the request has run, in order
    mwStatus,       \* the status written, 0 while none
    \* Engine selection (unnamed/part_010, validateRules and Setup)
    vrEngine,       \* cfg.Routing.Engine
    vrPatterns,     \* the keys of cfg.Routing.Rules
    vrPc,           \* "start", "validated", "exited" (os.Exit(1)) or "setup"
    vrRouter,       \* the router Setup made, "" before
    \* Shutdown (unnamed/part_000, gracefulShutdown, with the two loops it ends)
    sdCfg,          \* [leaky, tracing]: the leaky-bucket limiter and tracing in use
    sdPc,           \* position in gracefulShutdown, "serving" before the signal
    sdCleanupCh,    \* h.cleanupCh of the health checker: "open" or "closed"
    sdStopChan,     \* l.stopChan of the leaky-bucket limiter: "open" or "closed"
    sdHeartbeat,    \* startHeartbeat: "select", "check" or "returned"
    sdLeak,         \* startLeak: "none", "select", "leak" or "returned"
    sdBeats,        \* heartbeat checks done
    sdLeaks,        \* leak ticks done
    sdFlushed,      \* logger.Sync() done
    \* Object pool (unnamed/part_008, with filterRules of routing/utils.go)
    plEnabled,      \* cfg.Performance.MemoryPool.Enabled
    plConfigured,   \* pattern -> the rule list built from the configuration
    plArrays,       \* pattern -> the backing array of the route's rule list
    plPool,         \* the patterns whose backing array lies in rulesPool
    plRequests,     \* requests handled
    \* Locking of the health checker (unnamed/part_004, h.mu)
    hlReaders,      \* the threads that hold h.mu for reading
    hlWriter,       \* the thread that holds h.mu for writing, "" when none
    hlVisited,      \* thread -> the statuses it is done with under its lock
    hlTarget,       \* thread -> the status it reads or writes now, "" when none
    \* Sliding window of the breaker middleware (unnamed/part_017)
    swRequests,     \* window.requests: the recorded outcomes, oldest first
    swNow,          \* the clock, in seconds
    swErrorRate,    \* errorRateGauge: path -> <<failed, total>>
    swLatency,      \* latencyGauge: path -> average latency
    swCount,        \* the requests answered so far
    \* Background tasks of the middleware chain (unnamed/part_000)
    tkCfg,          \* the configuration the chain was last built from
    tkLeakTasks,    \* the startLeak goroutines that are running
    tkPruners,      \* the cleanup goroutines that are running
    tkReloads,      \* the configurations received on ConfigChan
    \* Token bucket (unnamed/part_013)
    tbQps,          \* cfg.Traffic.RateLimit.QPS
    tbBurst,        \* cfg.Traffic.RateLimit.Burst
    tbClock,        \* the clock, in ticks of 1 / (QPS * PerRequest) second
    tbState,        \* the limiter: the time of the next permission, 0 at first
    tbPc,           \* where each request stands in the middleware
    tbNow,          \* now := time.Now() of each request
    tbTakeTime,     \* takeTime := limiter.Take() of each request
    tbThrottled,    \* history: the limiter made the request wait
    tbStatus,       \* the answer to each caller's last request, 0 before
    tbAdmitted      \* history: how many admitted requests got their
                    \* permission at each time

leakyVars == <<capacity, queue, mutex, stopChan, leakPc, allowPc, allowResult>>

rrVars == <<rrCounter, rrN, rrPc, rrCount, rrCalls, rrSelected, rrStarted>>

wrrVars == <<wrrStates, wrrRun, wrrCalls>>

trieVars == <<trieNodes, trieRegistered, trieInserts>>

trrVars == <<trrNodes, trrStatic, trrRegexes, trrInserts, trrResponse>>

reVars == <<reCfg, reRules, reInstalled, reResponse, rePrev>>

hpVars == <<hpRules, hpLoadBalancer, hpCalls, hpResponse>>

srvVars == <<srvEngines, srvRouter, srvServing, srvExited, lbTypeWord, lbDataWord,
             hcTargets, reloadPc, reloadsDone, rqPc, rqObs>>

tbVars == <<tbQps, tbBurst, tbClock, tbState, tbPc, tbNow, tbTakeTime, tbThrottled,
            tbStatus, tbAdmitted>>

brVars == <<brErrorRate, brMaxConcurrent, brActive, brAttempts, brErrs, brOpen, brTrial,
            brPc, brStatus, brFallback, brTimedOut, brLate, brWriters>>

ktVars == <<ktReplicas, ktHash, ktNodes, ktHashRing, ktHashMap, ktPc, ktCall, ktResponse,
            ktRemoved>>

hcVars == <<targetStats, hcCfg, hcTicks, hcForwarded, hcRefreshes, hcDown, hcLast>>

mwVars == <<mwCfg, mwRoutes, mwPath, mwIndex, mwTrace, mwStatus>>

vrVars == <<vrEngine, vrPatterns, vrPc, vrRouter>>

sdVars == <<sdCfg, sdPc, sdCleanupCh, sdStopChan, sdHeartbeat, sdLeak, sdBeats, sdLeaks, sdFlushed>>

plVars == <<plEnabled, plConfigured, plArrays, plPool, plRequests>>

hlVars == <<hlReaders, hlWriter, hlVisited, hlTarget>>

swVars == <<swRequests, swNow, swErrorRate, swLatency, swCount>>

tkVars == <<tkCfg, tkLeakTasks, tkPruners, tkReloads>>

vars == <<leakyVars, rrVars, wrrVars, trieVars, trrVars, reVars, hpVars, srvVars, tbVars, brVars, ktVars, hcVars, mwVars, vrVars, sdVars, plVars, hlVars, swVars, tkVars>>

\* What an action of one subsystem leaves alone: the other subsystems.
leakyOthers == <<rrVars, wrrVars, trieVars, trrVars, reVars, hpVars, srvVars, tbVars, brVars, ktVars, hcVars, mwVars, vrVars, sdVars, plVars, hlVars, swVars, tkVars>>
rrOthers == <<leakyVars, wrrVars, trieVars, trrVars, reVars, hpVars, srvVars, tbVars, brVars, ktVars, hcVars, mwVars, vrVars, sdVars, plVars, hlVars, swVars, tkVars>>
wrrOthers == <<leakyVars, rrVars, trieVars, trrVars, reVars, hpVars, srvVars, tbVars, brVars, ktVars, hcVars, mwVars, vrVars, sdVars, plVars, hlVars, swVars, tkVars>>
trieOthers == <<leakyVars, rrVars, wrrVars, trrVars, reVars, hpVars, srvVars, tbVars, brVars, ktVars, hcVars, mwVars, vrVars, sdVars, plVars, hlVars, swVars, tkVars>>
trrOthers == <<leakyVars, rrVars, wrrVars, trieVars, reVars, hpVars, srvVars, tbVars, brVars, ktVars, hcVars, mwVars, vrVars, sdVars, plVars, hlVars, swVars, tkVars>>
srvOthers == <<leakyVars, rrVars, wrrVars, trieVars, trrVars, reVars, hpVars, tbVars, brVars, ktVars, hcVars, mwVars, vrVars, sdVars, plVars, hlVars, swVars, tkVars>>
hpOthers == <<leakyVars, rrVars, wrrVars, trieVars, trrVars, reVars, srvVars, tbVars, brVars, ktVars, hcVars, mwVars, vrVars, sdVars, plVars, hlVars, swVars, tkVars>>
tbOthers == <<leakyVars, rrVars, wrrVars, trieVars, trrVars, reVars, hpVars, srvVars, brVars, ktVars, hcVars, mwVars, vrVars, sdVars, plVars, hlVars, swVars, tkVars>>
reOthers == <<leakyVars, rrVars, wrrVars, trieVars, trrVars, hpVars, srvVars, tbVars, brVars, ktVars, hcVars, mwVars, vrVars, sdVars, plVars, hlVars, swVars, tkVars>>
brOthers == <<leakyVars, rrVars, wrrVars, trieVars, trrVars, reVars, hpVars, srvVars, tbVars, ktVars, hcVars, mwVars, vrVars, sdVars, plVars, hlVars, swVars, tkVars>>
ktOthers == <<leakyVars, rrVars, wrrVars, trieVars, trrVars, reVars, hpVars, srvVars, tbVars, brVars, hcVars, mwVars, vrVars, sdVars, plVars, hlVars, swVars, tkVars>>
hcOthers == <<leakyVars, rrVars, wrrVars, trieVars, trrVars, reVars, hpVars, srvVars, tbVars, brVars, ktVars, mwVars, vrVars, sdVars, plVars, hlVars, swVars, tkVars>>
mwOthers == <<leakyVars, rrVars, wrrVars, trieVars, trrVars, reVars, hpVars, srvVars, tbVars, brVars, ktVars, hcVars, vrVars, sdVars, plVars, hlVars, swVars, tkVars>>
vrOthers == <<leakyVars, rrVars, wrrVars, trieVars, trrVars, reVars, hpVars, srvVars, tbVars, brVars, ktVars, hcVars, mwVars, sdVars, plVars, hlVars, swVars, tkVars>>
sdOthers == <<leakyVars, rrVars, wrrVars, trieVars, trrVars, reVars, hpVars, srvVars, tbVars, brVars, ktVars, hcVars, mwVars, vrVars, plVars, hlVars, swVars, tkVars>>
plOthers == <<leakyVars, rrVars, wrrVars, trieVars, trrVars, reVars, hpVars, srvVars, tbVars, brVars, ktVars, hcVars, mwVars, vrVars, sdVars, hlVars, swVars, tkVars>>
hlOthers == <<leakyVars, rrVars, wrrVars, trieVars, trrVars, reVars, hpVars, srvVars, tbVars, brVars, ktVars, hcVars, mwVars, vrVars, sdVars, plVars, swVars, tkVars>>
swOthers == <<leakyVars, rrVars, wrrVars, trieVars, trrVars, reVars, hpVars, srvVars, tbVars, brVars, ktVars, hcVars, mwVars, vrVars, sdVars, plVars, hlVars, tkVars>>
tkOthers == <<leakyVars, rrVars, wrrVars, trieVars, trrVars, reVars, hpVars, srvVars, tbVars, brVars, ktVars, hcVars, mwVars, vrVars, sdVars, plVars, hlVars, swVars>>

-----------------------------------------------------------------------------
(***************************************************************************)
(* Bounds of the model.                                                    *)
(***************************************************************************)
MaxBurst == 3
NumCallers == 2
MaxTargets == 3
MaxCalls == 4
MaxWeight == 2
MaxWrrCalls == 8
MaxPathLen == 3
MaxInserts == 2
MaxRoutes == 2
MaxReloads == 1
MaxQps == 2
MaxSlack == 1
MaxTime == 7

\* The breaker: the largest MaxConcurrentRequests, the command's
\* RequestVolumeThreshold and the most requests its metrics hold.
MaxConcurrent == 2
MinRequests == 2
MaxBrRequests == 4

\* The health checker: the heartbeat checks, the forwarded requests and
\* the reloads of a run.
MaxTicks == 3
MaxForwarded == 2
MaxRefreshes == 2

\* Shutdown: the ticks each background loop takes in a run.
MaxBeats == 2

\* The object pool: the requests of a run.
MaxPoolRequests == 3

\* The requests recorded in the sliding window, and the seconds of its clock.
MaxWindowRequests == 3
MaxClock == 3

\* The configurations received on ConfigChan by the task model.
MaxTaskReloads == 3

Callers == 1..NumCallers

\* Who holds l.mutex: nobody, a caller of Allow, or the leak goroutine.
Free == 0
LeakTask == NumCallers + 1

-----------------------------------------------------------------------------
(***************************************************************************)
(* LeakyBucketLimiter.                                                     *)
(***************************************************************************)

\* select { case l.queue <- struct{}{}: return true; default: return false }
\* on a channel of capacity cap holding q entries, nobody receiving.
TrySendNoCapacityCheck(q, cap) == [queue |-> q + 1, ok |-> TRUE]

TrySend(q, cap) ==
    IF q < cap THEN [queue |-> q + 1, ok |-> TRUE]
               ELSE [queue |-> q, ok |-> FALSE]

\* if len(l.queue) > 0 { select { case <-l.queue: default: } }
LeakOneDrainsAll(q) == 0

LeakOne(q) == IF q > 0 THEN q - 1 ELSE q

\* NewLeakyBucketLimiter(qps, burst): an empty queue of capacity burst, the
\* leak goroutine started.
LeakyInit ==
    /\ capacity \in 0..MaxBurst
    /\ queue = 0
    /\ mutex = Free
    /\ stopChan = FALSE
    /\ leakPc = "select"
    /\ allowPc = [c \in Callers |-> "idle"]
    /\ allowResult = [c \in Callers |-> "none"]

\* The state of a limiter no specification is about.
LeakyIdle ==
    /\ capacity = 0
    /\ queue = 0
    /\ mutex = Free
    /\ stopChan = FALSE
    /\ leakPc = "select"
    /\ allowPc = [c \in Callers |-> "idle"]
    /\ allowResult = [c \in Callers |-> "none"]

\* Allow: l.mutex.Lock()
AllowLock(c) ==
    /\ allowPc[c] = "idle"
    /\ mutex = Free
    /\ mutex' = c
    /\ allowPc' = [allowPc EXCEPT ![c] = "locked"]
    /\ UNCHANGED <<capacity, queue, stopChan, leakPc, allowResult>>
    /\ UNCHANGED leakyOthers

\* Allow: the non-blocking send, the return and the deferred Unlock.
AllowSend(c) ==
    /\ allowPc[c] = "locked"
    /\ mutex = c
    /\ LET r == TrySend(queue, capacity)
       IN /\ queue' = r.queue
          /\ allowResult' = [allowResult EXCEPT ![c] = IF r.ok THEN "true" ELSE "false"]
    /\ mutex' = Free
    /\ allowPc' = [allowPc EXCEPT ![c] = "idle"]
    /\ UNCHANGED <<capacity, stopChan, leakPc>>
    /\ UNCHANGED leakyOthers

\* startLeak: case <-ticker.C
LeakTick ==
    /\ leakPc = "select"
    /\ leakPc' = "lock"
    /\ UNCHANGED <<capacity, queue, mutex, stopChan, allowPc, allowResult>>
    /\ UNCHANGED leakyOthers

\* startLeak: l.mutex.Lock()
LeakLock ==
    /\ leakPc = "lock"
    /\ mutex = Free
    /\ mutex' = LeakTask
    /\ leakPc' = "locked"
    /\ UNCHANGED <<capacity, queue, stopChan, allowPc, allowResult>>
    /\ UNCHANGED leakyOthers

\* startLeak: remove one entry if there is one, then l.mutex.Unlock()
LeakDrain ==
    /\ leakPc = "locked"
    /\ mutex = LeakTask
    /\ queue' = LeakOne(queue)
    /\ mutex' = Free
    /\ leakPc' = "select"
    /\ UNCHANGED <<capacity, stopChan, allowPc, allowResult>>
    /\ UNCHANGED leakyOthers

\* startLeak: case <-l.stopChan: return
LeakStoppedKeepsRunning ==
    /\ leakPc = "select"
    /\ stopChan
    /\ UNCHANGED vars

LeakStopped ==
    /\ leakPc = "select"
    /\ stopChan
    /\ leakPc' = "stopped"
    /\ UNCHANGED <<capacity, queue, mutex, stopChan, allowPc, allowResult>>
    /\ UNCHANGED leakyOthers

\* Stop: close(l.stopChan)
Stop ==
    /\ ~stopChan
    /\ stopChan' = TRUE
    /\ UNCHANGED <<capacity, queue, mutex, leakPc, allowPc, allowResult>>
    /\ UNCHANGED leakyOthers

NextLeaky ==
    \/ \E c \in Callers : AllowLock(c)
    \/ \E c \in Callers : AllowSend(c)
    \/ LeakTick
    \/ LeakLock
    \/ LeakDrain
    \/ LeakStopped
    \/ Stop

-----------------------------------------------------------------------------
(***************************************************************************)
(* RoundRobin. The counter is a uint32: it is kept as its two 16-bit       *)
(* halves, so that the wrap at 2^32 is the code's.                         *)
(***************************************************************************)
Half == 65536

Uint32Zero == [hi |-> 0, lo |-> 0]
Uint32Max == [hi |-> Half - 1, lo |-> Half - 1]

\* x + 1 on a uint32
Uint32Inc(x) ==
    IF x.lo < Half - 1 THEN [hi |-> x.hi, lo |-> x.lo + 1]
    ELSE IF x.hi < Half - 1 THEN [hi |-> x.hi + 1, lo |-> 0]
    ELSE Uint32Zero

\* x - 1 on a uint32
Uint32Dec(x) ==
    IF x.lo > 0 THEN [hi |-> x.hi, lo |-> x.lo - 1]
    ELSE IF x.hi > 0 THEN [hi |-> x.hi - 1, lo |-> Half - 1]
    ELSE Uint32Max

\* x % n on a uint32
Uint32Mod(x, n) == (((x.hi % n) * (Half % n)) + (x.lo % n)) % n

\* index := (count - 1) % uint32(len(targets)), 0-based
RRIndex(count, n) == Uint32Mod(Uint32Dec(count), n)

\* The counter after c calls made one after the other, and the history that
\* goes with it: call k (k = 1..c) returned index (k - 1) % n.
RRAfter(c, n) ==
    /\ rrCounter = c
    /\ rrCalls = Uint32Mod(c, n)
    /\ rrSelected = [i \in 0..(n - 1) |-> IF i < Uint32Mod(c, n) THEN 1 ELSE 0]

\* NewRoundRobin, or a balancer that has served Uint32Max - 1 calls.
RRInit ==
    /\ rrN \in 2..MaxTargets
    /\ \E c \in {Uint32Zero, Uint32Dec(Uint32Max)} : RRAfter(c, rrN)
    /\ rrPc = [c \in Callers |-> "idle"]
    /\ rrCount = [c \in Callers |-> Uint32Zero]
    /\ rrStarted = 0

RRIdle ==
    /\ rrN = 2
    /\ RRAfter(Uint32Zero, 2)
    /\ rrPc = [c \in Callers |-> "idle"]
    /\ rrCount = [c \in Callers |-> Uint32Zero]
    /\ rrStarted = 0

\* SelectTarget: count := atomic.AddUint32(&rr.counter, 1)
RRAdd(c) ==
    /\ rrPc[c] = "idle"
    /\ rrStarted < MaxCalls
    /\ rrCounter' = Uint32Inc(rrCounter)
    /\ rrCount' = [rrCount EXCEPT ![c] = Uint32Inc(rrCounter)]
    /\ rrPc' = [rrPc EXCEPT ![c] = "added"]
    /\ rrStarted' = rrStarted + 1
    /\ UNCHANGED <<rrN, rrCalls, rrSelected>>
    /\ UNCHANGED rrOthers

\* SelectTarget: return targets[(count - 1) % len(targets)]
RRReturn(c) ==
    /\ rrPc[c] = "added"
    /\ LET index == RRIndex(rrCount[c], rrN)
       IN rrSelected' = [rrSelected EXCEPT ![index] = @ + 1]
    /\ rrCalls' = rrCalls + 1
    /\ rrPc' = [rrPc EXCEPT ![c] = "idle"]
    /\ UNCHANGED <<rrCounter, rrN, rrCount, rrStarted>>
    /\ UNCHANGED rrOthers

NextRR ==
    \/ \E c \in Callers : RRAdd(c)
    \/ \E c \in Callers : RRReturn(c)

-----------------------------------------------------------------------------
(***************************************************************************)
(* Targets and load-balancer results.                                      *)
(***************************************************************************)
TargetNames == <<"A", "B", "C", "D", "E">>

\* The first n target names, in order.
FirstTargets(n) == [i \in 1..n |-> TargetNames[i]]

\* SelectTarget's "" (no target), and a run-time panic of the handler (an
\* index out of range, an integer division by zero), which gin.Recovery
\* turns into a 500.
NoTarget == ""
Panic == "panic"

\* Go's x % n for n > 0: the result has the sign of x.
GoMod(x, n) == IF x >= 0 THEN x % n ELSE 0 - ((0 - x) % n)

\* The sum of a sequence of integers.
RECURSIVE SumSeq(_)
SumSeq(w) == IF w = <<>> THEN 0 ELSE Head(w) + SumSeq(Tail(w))

-----------------------------------------------------------------------------
(***************************************************************************)
(* WeightedRoundRobin. SelectTarget runs under wrr.mu from its first line  *)
(* to its return: it is one step. currentCount is a Go int (64 bits): its  *)
(* overflow is out of reach and it is kept as an unbounded integer.        *)
(***************************************************************************)

\* NewWeightedRoundRobin: the state built for one path from its rules
\* (a sequence of [Target, Weight]).
NewWrrState(targetRules) ==
    [targets |-> [i \in 1..Len(targetRules) |-> targetRules[i].Target],
     weights |-> [i \in 1..Len(targetRules) |-> targetRules[i].Weight],
     totalWeight |-> SumSeq([i \in 1..Len(targetRules) |-> targetRules[i].Weight]),
     currentCount |-> -1]

\* NewWeightedRoundRobin(rules), rules a function path -> rules.
NewWeightedRoundRobin(rules) == [p \in DOMAIN rules |-> NewWrrState(rules[p])]

\* for i := 0; i < n; i++ { cumulativeWeight += state.weights[i]
\*     if current < cumulativeWeight { return state.targets[i] } }
\* return state.targets[0]
RECURSIVE WrrWalkOffByOne(_, _, _, _)
WrrWalkOffByOne(state, current, i, cumulativeWeight) ==
    IF i > Len(state.targets) THEN state.targets[1]
    ELSE IF current <= cumulativeWeight + state.weights[i] THEN state.targets[i]
    ELSE WrrWalkOffByOne(state, current, i + 1, cumulativeWeight + state.weights[i])

RECURSIVE WrrWalk(_, _, _, _)
WrrWalk(state, current, i, cumulativeWeight) ==
    IF i > Len(state.targets) THEN state.targets[1]
    ELSE IF current < cumulativeWeight + state.weights[i] THEN state.targets[i]
    ELSE WrrWalk(state, current, i + 1, cumulativeWeight + state.weights[i])

\* WeightedRoundRobin.SelectTarget(targets, req), req.URL.Path = path:
\* the target returned and wrr.states afterwards.
WrrSelectTarget(states, path, targets) ==
    IF Len(targets) = 0 THEN [target |-> NoTarget, states |-> states]
    ELSE IF Len(targets) = 1 THEN [target |-> targets[1], states |-> states]
    ELSE IF path \notin DOMAIN states THEN
        \* state == nil: count stays 0
        [target |-> targets[(0 % Len(targets)) + 1], states |-> states]
    ELSE IF Len(states[path].targets) = 0 THEN
        LET count == states[path].currentCount
            next == GoMod(count + 1, Len(targets))
            index == GoMod(count, Len(targets))
        IN [target |-> IF index < 0 THEN Panic ELSE targets[index + 1],
            states |-> [states EXCEPT ![path].currentCount = next]]
    ELSE
        LET state == [states[path] EXCEPT !.currentCount = @ + 1]
        IN [target |-> IF state.totalWeight = 0 THEN Panic
                       ELSE WrrWalk(state, GoMod(state.currentCount, state.totalWeight), 1, 0),
            states |-> [states EXCEPT ![path] = state]]

\* The rule lists a path may be configured with: the first n targets, each
\* with a weight.
RuleLists ==
    UNION {[1..n -> {[Target |-> TargetNames[i], Weight |-> w] : i \in 1..n, w \in 0..MaxWeight}] :
           n \in 0..MaxTargets}

TargetRuleLists ==
    {r \in RuleLists : \A i \in DOMAIN r : r[i].Target = TargetNames[i]}

\* The candidate lists a caller passes.
CandidateLists == {FirstTargets(n) : n \in 0..MaxTargets} \cup {<<TargetNames[2], TargetNames[1]>>}

\* The request paths: one with registered state, one without.
WrrPaths == {"/r", "/u"}

NoRun == [cands |-> <<>>, results |-> <<>>]

WrrInit ==
    /\ \E r \in TargetRuleLists : wrrStates = NewWeightedRoundRobin([p \in {"/r"} |-> r])
    /\ wrrRun = [p \in {"/r"} |-> NoRun]
    /\ wrrCalls = 0

\* The same construction, the calls of both request paths being recorded.
WrrFallbackInit ==
    /\ \E r \in TargetRuleLists : wrrStates = NewWeightedRoundRobin([p \in {"/r"} |-> r])
    /\ wrrRun = [p \in WrrPaths |-> NoRun]
    /\ wrrCalls = 0

WrrIdle ==
    /\ wrrStates = NewWeightedRoundRobin([p \in {"/r"} |-> <<>>])
    /\ wrrRun = [p \in {"/r"} |-> NoRun]
    /\ wrrCalls = 0

\* One call of SelectTarget(cands, req) for path.
WrrCall(path, cands) ==
    /\ wrrCalls < MaxWrrCalls
    /\ LET r == WrrSelectTarget(wrrStates, path, cands)
       IN /\ wrrStates' = r.states
          /\ wrrRun' = [p \in DOMAIN wrrRun |->
                IF p # path THEN wrrRun[p]
                ELSE IF Len(cands) < 2 THEN NoRun
                ELSE IF wrrRun[p].cands = cands
                     THEN [cands |-> cands, results |-> Append(wrrRun[p].results, r.target)]
                     ELSE [cands |-> cands, results |-> <<r.target>>]]
    /\ wrrCalls' = wrrCalls + 1
    /\ UNCHANGED wrrOthers

NextWrr == \E path \in WrrPaths, cands \in CandidateLists : WrrCall(path, cands)

-----------------------------------------------------------------------------
(***************************************************************************)
(* Paths and patterns are sequences of characters.                         *)
(***************************************************************************)

\* All sequences over chars of length at most n.
RECURSIVE StringsUpTo(_, _)
StringsUpTo(chars, n) ==
    IF n = 0 THEN {<<>>}
    ELSE LET shorter == StringsUpTo(chars, n - 1)
         IN shorter \cup {Append(x, c) : x \in shorter, c \in chars}

\* strings.TrimPrefix(path, "/")
TrimPrefix(path) ==
    IF Len(path) > 0 /\ path[1] = "/" THEN SubSeq(path, 2, Len(path)) ELSE path

\* strings.TrimSuffix(path, "/")
TrimSuffix(path) ==
    IF Len(path) > 0 /\ path[Len(path)] = "/" THEN SubSeq(path, 1, Len(path) - 1) ELSE path

\* config.RoutingRules: a sequence of [Target, Weight, Env]; nil is <<>>.
Rule(target, weight, env) == [Target |-> target, Weight |-> weight, Env |-> env]
NilRules == <<>>

\* The rule lists routes are inserted with.
RulesOne == <<Rule("A", 1, "stable")>>
RulesTwo == <<Rule("B", 1, "stable"), Rule("C", 1, "canary")>>
InsertedRules == {RulesOne, RulesTwo}

-----------------------------------------------------------------------------
(***************************************************************************)
(* Trie: Insert and Search are pure walks from the root.                   *)
(***************************************************************************)

\* &TrieNode{Children: make(map[rune]*TrieNode)}
NewTrieNode == [Rules |-> NilRules, IsEnd |-> FALSE]

\* &Trie{Root: &TrieNode{...}}
NewTrie == [n \in {<<>>} |-> NewTrieNode]

\* Insert's walk: make the missing children on the way down path.
RECURSIVE TrieGrow(_, _, _)
TrieGrow(nodes, node, path) ==
    IF path = <<>> THEN nodes
    ELSE LET child == Append(node, Head(path))
             grown == IF child \in DOMAIN nodes THEN nodes
                      ELSE [n \in DOMAIN nodes \cup {child} |->
                               IF n = child THEN NewTrieNode ELSE nodes[n]]
         IN TrieGrow(grown, child, Tail(path))

\* Trie.Insert(path, rules)
TrieInsert(nodes, path, rules) ==
    LET clean == TrimPrefix(path)
        grown == TrieGrow(nodes, <<>>, clean)
    IN [grown EXCEPT ![clean] = [Rules |-> rules, IsEnd |-> TRUE]]

\* Search's walk: the node path leads to, or "none" at a missing child.
RECURSIVE TrieWalk(_, _, _)
TrieWalk(nodes, node, path) ==
    IF path = <<>> THEN [node |-> node, missing |-> FALSE]
    ELSE LET child == Append(node, Head(path))
         IN IF child \notin DOMAIN nodes THEN [node |-> node, missing |-> TRUE]
            ELSE TrieWalk(nodes, child, Tail(path))

NotFound == [rules |-> NilRules, found |-> FALSE]

\* Trie.Search(path)
TrieSearchNoEndCheck(nodes, path) ==
    LET w == TrieWalk(nodes, <<>>, TrimSuffix(TrimPrefix(path)))
    IN IF w.missing THEN NotFound
       ELSE [rules |-> nodes[w.node].Rules, found |-> TRUE]

\* The walk without strings.TrimSuffix.
TrieSearchNoTrimSuffix(nodes, path) ==
    LET w == TrieWalk(nodes, <<>>, TrimPrefix(path))
    IN IF w.missing THEN NotFound
       ELSE IF nodes[w.node].IsEnd THEN [rules |-> nodes[w.node].Rules, found |-> TRUE]
       ELSE NotFound

TrieSearch(nodes, path) ==
    LET w == TrieWalk(nodes, <<>>, TrimSuffix(TrimPrefix(path)))
    IN IF w.missing THEN NotFound
       ELSE IF nodes[w.node].IsEnd THEN [rules |-> nodes[w.node].Rules, found |-> TRUE]
       ELSE NotFound

\* The patterns inserted and the paths searched.
StaticChars == {"/", "a"}
TriePatterns == StringsUpTo(StaticChars, MaxPathLen)
TrieSearchPaths == StringsUpTo(StaticChars, MaxPathLen + 1)

NoRoutes == [k \in {} |-> NilRules]

\* NewTrieRouter
TrieInit ==
    /\ trieNodes = NewTrie
    /\ trieRegistered = NoRoutes
    /\ trieInserts = 0

TrieIdle == TrieInit

\* tr.Trie.Insert(path, targetRules)
Insert(path, rules) ==
    /\ trieInserts < MaxInserts
    /\ trieNodes' = TrieInsert(trieNodes, path, rules)
    /\ trieRegistered' =
          [k \in DOMAIN trieRegistered \cup {TrimPrefix(path)} |->
              IF k = TrimPrefix(path) THEN rules ELSE trieRegistered[k]]
    /\ trieInserts' = trieInserts + 1
    /\ UNCHANGED trieOthers

NextTrie == \E path \in TriePatterns, rules \in InsertedRules : Insert(path, rules)

-----------------------------------------------------------------------------
(***************************************************************************)
(* Regular expressions: the part of the syntax the patterns below use,     *)
(* a literal character, "." (any character), a postfix "*", and the        *)
(* anchors "^" and "$".  A compiled expression is the sequence of its      *)
(* characters; MatchString looks for a match anywhere in the string.       *)
(***************************************************************************)
NilRegex == <<>>

\* strings.ContainsAny(path, chars)
ContainsAny(path, chars) == \E i \in 1..Len(path) : path[i] \in chars

\* ".*+?()|[]^$\\"
RegexMeta == {".", "*", "+", "?", "(", ")", "|", "[", "]", "^", "$", "\\"}

\* regexp.Compile: a repetition of a repetition is an error.
RegexpCompile(expr) ==
    IF \E i \in 1..(Len(expr) - 1) : expr[i] = "*" /\ expr[i + 1] = "*"
    THEN [re |-> NilRegex, err |-> TRUE]
    ELSE [re |-> expr, err |-> FALSE]

AtomMatches(atom, ch) == atom = "." \/ atom = ch

\* re, from its first character on, matches s from position i on.
RECURSIVE MatchHere(_, _, _)
MatchHere(re, s, i) ==
    IF re = <<>> THEN TRUE
    ELSE IF Len(re) >= 2 /\ re[2] = "*"
    THEN \/ MatchHere(SubSeq(re, 3, Len(re)), s, i)
         \/ /\ i <= Len(s)
            /\ AtomMatches(re[1], s[i])
            /\ MatchHere(re, s, i + 1)
    ELSE IF re[1] = "^" THEN i = 1 /\ MatchHere(Tail(re), s, i)
    ELSE IF re[1] = "$" THEN i = Len(s) + 1 /\ MatchHere(Tail(re), s, i)
    ELSE /\ i <= Len(s)
         /\ AtomMatches(re[1], s[i])
         /\ MatchHere(Tail(re), s, i + 1)

\* (*Regexp).MatchString
MatchString(re, s) == \E i \in 1..(Len(s) + 1) : MatchHere(re, s, i)

\* "^" + path + "$"
Anchored(path) == <<"^">> \o path \o <<"$">>

\* c.Request.URL.Path: a "/" and up to MaxPathLen - 1 more characters.
RequestPaths == {<<"/">> \o x : x \in StringsUpTo(StaticChars, MaxPathLen - 1)}

\* What the routing middleware answers.
RouteNotFound == [status |-> 404, rules |-> NilRules]
RoutePanic == [status |-> 500, rules |-> NilRules]
RouteMatched(rules) == [status |-> 200, rules |-> rules]
NoResponse == [status |-> 0, rules |-> NilRules]

-----------------------------------------------------------------------------
(***************************************************************************)
(* TrieRegexp: static patterns in the trie, one regex on the root.         *)
(***************************************************************************)

\* &TrieRegexpNode{Children: make(map[rune]*TrieRegexpNode)}
NewTrieRegexpNode ==
    [Rules |-> NilRules, IsEnd |-> FALSE, Regex |-> NilRegex, RegexPattern |-> <<>>]

\* NewTrieRegexpRouter
NewTrieRegexp == [n \in {<<>>} |-> NewTrieRegexpNode]

\* Insert's walk: make the missing children on the way down path.
RECURSIVE TrrGrow(_, _, _)
TrrGrow(nodes, node, path) ==
    IF path = <<>> THEN nodes
    ELSE LET child == Append(node, Head(path))
             grown == IF child \in DOMAIN nodes THEN nodes
                      ELSE [n \in DOMAIN nodes \cup {child} |->
                               IF n = child THEN NewTrieRegexpNode ELSE nodes[n]]
         IN TrrGrow(grown, child, Tail(path))

\* TrieRegexp.Insert(path, rules)
TrrInsert(nodes, rawPath, rules) ==
    LET path == TrimPrefix(rawPath)
        c == RegexpCompile(Anchored(path))
    IN IF ContainsAny(path, RegexMeta)
       THEN IF c.err THEN nodes
            ELSE [nodes EXCEPT ![<<>>].Regex = c.re,
                               ![<<>>].RegexPattern = path,
                               ![<<>>].Rules = rules]
       ELSE LET grown == TrrGrow(nodes, <<>>, path)
            IN [grown EXCEPT ![path].Rules = rules, ![path].IsEnd = TRUE]

\* Search's walk: the last node reached before a missing child, or the
\* node the whole path leads to.
RECURSIVE TrrWalk(_, _, _)
TrrWalk(nodes, node, path) ==
    IF path = <<>> THEN node
    ELSE LET child == Append(node, Head(path))
         IN IF child \notin DOMAIN nodes THEN node
            ELSE TrrWalk(nodes, child, Tail(path))

\* TrieRegexp.Search(path)
TrrSearch(nodes, path) ==
    LET cleanPath == TrimPrefix(path)
        node == TrrWalk(nodes, <<>>, cleanPath)
        root == nodes[<<>>]
    IN IF nodes[node].IsEnd THEN [rules |-> nodes[node].Rules, found |-> TRUE]
       ELSE IF root.Regex # NilRegex /\ MatchString(root.Regex, path)
       THEN [rules |-> root.Rules, found |-> TRUE]
       ELSE NotFound

\* The routes of the configuration: static and regex patterns, one of which
\* does not compile, and rule lists, one of which is empty.
TrrPatterns ==
    { <<"/">>, <<"/", "a">>, <<"/", "a", "a">>, <<"/", "a", "/">>,
      <<"/", "a", ".">>, <<"/", ".", "a">>, <<"/", "a", "*">>, <<"/", ".", "*">>,
      <<"/", "a", "*", "*">>, <<"/", "a", "/", "a">> }
TrrRules == InsertedRules \cup {NilRules}

\* NewTrieRegexpRouter
TrrInit ==
    /\ trrNodes = NewTrieRegexp
    /\ trrStatic = NoRoutes
    /\ trrRegexes = <<>>
    /\ trrInserts = 0
    /\ trrResponse = NoResponse

TrrIdle == TrrInit

\* tr.Trie.Insert(path, targetRules), in Setup's loop
TrrInsertRoute(path, rules) ==
    /\ trrInserts < MaxInserts
    /\ trrNodes' = TrrInsert(trrNodes, path, rules)
    /\ trrStatic' =
          IF ContainsAny(path, RegexMeta) THEN trrStatic
          ELSE [k \in DOMAIN trrStatic \cup {TrimPrefix(path)} |->
                   IF k = TrimPrefix(path) THEN rules ELSE trrStatic[k]]
    /\ trrRegexes' =
          IF ContainsAny(path, RegexMeta) /\ ~RegexpCompile(Anchored(path)).err
          THEN Append(trrRegexes, [pattern |-> path, rules |-> rules])
          ELSE trrRegexes
    /\ trrInserts' = trrInserts + 1
    /\ trrResponse' = NoResponse
    /\ UNCHANGED trrOthers

\* The middleware Setup installs: Search, 404 when nothing is found,
\* targetRules[0] for the span, then the proxy handler.
TrrRequest(path) ==
    /\ LET r == TrrSearch(trrNodes, path)
       IN trrResponse' =
             IF ~r.found THEN RouteNotFound
             ELSE IF Len(r.rules) = 0 THEN RoutePanic
             ELSE RouteMatched(r.rules)
    /\ UNCHANGED <<trrNodes, trrStatic, trrRegexes, trrInserts>>
    /\ UNCHANGED trrOthers

NextTrr ==
    \/ \E path \in TrrPatterns, rules \in TrrRules : TrrInsertRoute(path, rules)
    \/ \E path \in RequestPaths : TrrRequest(path)

-----------------------------------------------------------------------------
(***************************************************************************)
(* RegexpRouter: a map from pattern to compiled expression, ranged over    *)
(* by every request.                                                       *)
(***************************************************************************)

\* The routes of the configuration: a map with at most MaxRoutes patterns.
RePatterns ==
    { <<"/", "a">>, <<"/", "a", ".">>, <<"/", ".", "a">>, <<"/", ".", "*">>,
      <<"/", "a", "*", "*">> }
ReConfigs ==
    UNION {[D -> TrrRules] : D \in {X \in SUBSET RePatterns : Cardinality(X) <= MaxRoutes}}

NoRegexps == [k \in {} |-> NilRegex]
NoRequest == [path |-> <<>>, response |-> NoResponse]

\* NewRegexpRouter
RegexpInit ==
    /\ reCfg \in ReConfigs
    /\ reRules = NoRegexps
    /\ reInstalled = FALSE
    /\ reResponse = NoRequest
    /\ rePrev = NoRequest

RegexpIdle ==
    /\ reCfg = NoRoutes
    /\ reRules = NoRegexps
    /\ reInstalled = FALSE
    /\ reResponse = NoRequest
    /\ rePrev = NoRequest

\* RegexpRouter.Setup: compile every pattern that compiles, install the
\* middleware (nothing at all when the configuration has no route).
RegexpSetup ==
    /\ ~reInstalled
    /\ DOMAIN reCfg # {}
    /\ reRules' =
          [path \in {x \in DOMAIN reCfg : ~RegexpCompile(Anchored(x)).err} |->
              RegexpCompile(Anchored(path)).re]
    /\ reInstalled' = TRUE
    /\ UNCHANGED <<reCfg, reResponse, rePrev>>
    /\ UNCHANGED reOthers

\* What the middleware answers once its loop has set targetRules and found.
RegexpAnswer(found, targetRules) ==
    IF ~found THEN RouteNotFound
    ELSE IF Len(targetRules) = 0 THEN RoutePanic
    ELSE RouteMatched(targetRules)

\* The middleware, when no pattern matches: the range loop ends with found
\* still false.
RegexpRequestNoMatch(path) ==
    /\ reInstalled
    /\ \A pattern \in DOMAIN reRules : ~MatchString(reRules[pattern], path)
    /\ reResponse' = [path |-> path, response |-> RegexpAnswer(FALSE, NilRules)]
    /\ rePrev' = reResponse
    /\ UNCHANGED <<reCfg, reRules, reInstalled>>
    /\ UNCHANGED reOthers

\* The middleware, when some pattern matches: the range over the map
\* rr.rules visits the patterns in an order the runtime chooses, and the
\* loop breaks at the first match it visits, which can be any matching
\* pattern.
RegexpRequestMatch(path) ==
    /\ reInstalled
    /\ \E pattern \in DOMAIN reRules :
          /\ MatchString(reRules[pattern], path)
          /\ reResponse' = [path |-> path, response |-> RegexpAnswer(TRUE, reCfg[pattern])]
    /\ rePrev' = reResponse
    /\ UNCHANGED <<reCfg, reRules, reInstalled>>
    /\ UNCHANGED reOthers

NextRegexp ==
    \/ RegexpSetup
    \/ \E path \in RequestPaths : RegexpRequestNoMatch(path)
    \/ \E path \in RequestPaths : RegexpRequestMatch(path)

-----------------------------------------------------------------------------
(***************************************************************************)
(* HTTPProxy: the handler of one route.  filterRules narrows the route's   *)
(* rules by the X-Env header, extractTargets lists their targets and the   *)
(* load balancer picks one.                                                *)
(***************************************************************************)
defaultEnv == "stable"
canaryEnv == "canary"

\* getEnvFromHeader: the X-Env header, or defaultEnv without one.
HeaderEnvs == {defaultEnv, canaryEnv}

\* The rules a route may be configured with: the first n targets, each
\* with a weight and an environment.
RouteRuleLists ==
    UNION {{[i \in 1..n |-> Rule(TargetNames[i], w[i], e[i])] :
               w \in [1..n -> 1..MaxWeight], e \in [1..n -> {defaultEnv, canaryEnv}]} :
           n \in 0..MaxTargets}

\* for _, rule := range rules { if rule.Env == canaryEnv { append } }
SelectCanary(rules) == SelectSeq(rules, LAMBDA rule : rule.Env = canaryEnv)

\* HTTPProxy.filterRules(rules, env): the rules kept, or a panic at
\* rules[0] of an empty list.
FilterRules(rules, env) ==
    IF env = canaryEnv
    THEN IF Len(SelectCanary(rules)) = 0
         THEN IF Len(rules) = 0 THEN [rules |-> NilRules, panic |-> TRUE]
              ELSE [rules |-> rules, panic |-> FALSE]
         ELSE [rules |-> SelectCanary(rules), panic |-> FALSE]
    ELSE [rules |-> rules, panic |-> FALSE]

\* HTTPProxy.extractTargets(rules)
ExtractTargets(rules) == [i \in 1..Len(rules) |-> rules[i].Target]

\* The elements of a list of targets.
Range(targets) == {targets[i] : i \in 1..Len(targets)}

\* loadbalancer.NewLoadBalancer(cfg.Routing.LoadBalancer, cfg), with the
\* fall-back of initializeLoadBalancer to round-robin.  The weighted
\* balancer gets the state of the configured route "/r"; the Consul
\* balancer starts with no snapshot.
NoSnapshot == [k \in {} |-> <<>>]
NewLoadBalancer(policy, rules) ==
    CASE policy = "weighted_round_robin" ->
            [Type |-> policy, states |-> NewWeightedRoundRobin([p \in {"/r"} |-> rules])]
      [] policy = "ketama" -> [Type |-> policy, nodes |-> <<>>]
      [] policy = "consul" -> [Type |-> policy, rules |-> NoSnapshot]
      [] OTHER -> [Type |-> "round_robin", counter |-> Uint32Zero]

Policies == {"round_robin", "weighted_round_robin", "ketama", "consul", "unknown"}

\* RoundRobin.SelectTarget(targets, req)
RoundRobinSelectTarget(lb, targets) ==
    IF Len(targets) = 0 THEN {[target |-> NoTarget, lb |-> lb]}
    ELSE {[target |-> targets[RRIndex(Uint32Inc(lb.counter), Len(targets)) + 1],
           lb |-> [lb EXCEPT !.counter = Uint32Inc(@)]]}

\* Ketama.SelectTarget(targets, req), taken as one step: the ring is
\* rebuilt when the candidates differ from k.nodes, and the node returned
\* owns the hash of the client address, which can be any node of the ring.
KetamaSelectTarget(lb, targets) ==
    IF Len(targets) = 0 THEN {[target |-> NoTarget, lb |-> lb]}
    ELSE {[target |-> t, lb |-> [lb EXCEPT !.nodes = targets]] : t \in Range(targets)}

\* ConsulBalancer.SelectTarget(targets, req): the index is taken from the
\* clock, so any element can be returned.
ConsulSelectTarget(lb, targets, path) ==
    IF path \in DOMAIN lb.rules /\ Len(lb.rules[path]) > 0
    THEN {[target |-> t, lb |-> lb] : t \in Range(lb.rules[path])}
    ELSE IF Len(targets) = 0 THEN {[target |-> NoTarget, lb |-> lb]}
    ELSE {[target |-> t, lb |-> lb] : t \in Range(targets)}

\* hp.loadBalancer.SelectTarget(targets, c.Request): every [target, lb]
\* the call can end with.
LbSelectTarget(lb, targets, path) ==
    CASE lb.Type = "round_robin" -> RoundRobinSelectTarget(lb, targets)
      [] lb.Type = "weighted_round_robin" ->
            LET r == WrrSelectTarget(lb.states, path, targets)
            IN {[target |-> r.target, lb |-> [lb EXCEPT !.states = r.states]]}
      [] lb.Type = "ketama" -> KetamaSelectTarget(lb, targets)
      [] lb.Type = "consul" -> ConsulSelectTarget(lb, targets, path)

\* HTTPProxy.selectTarget: the environment of the first rule with the
\* target chosen.
RECURSIVE EnvOfTarget(_, _)
EnvOfTarget(rules, target) ==
    IF rules = <<>> THEN defaultEnv
    ELSE IF Head(rules).Target = target THEN Head(rules).Env
    ELSE EnvOfTarget(Tail(rules), target)

NoHandled == [env |-> "", path |-> "", status |-> 0, candidates |-> <<>>,
              target |-> NoTarget, selectedEnv |-> ""]

\* NewHTTPProxy and createHTTPHandler(rules)
ProxyInit ==
    /\ hpRules \in RouteRuleLists
    /\ \E policy \in Policies : hpLoadBalancer = NewLoadBalancer(policy, hpRules)
    /\ hpCalls = 0
    /\ hpResponse = NoHandled

ProxyIdle ==
    /\ hpRules = NilRules
    /\ hpLoadBalancer = NewLoadBalancer("round_robin", NilRules)
    /\ hpCalls = 0
    /\ hpResponse = NoHandled

\* The handler: 500 from the recovery middleware when it panics, 503 when
\* no target is selected, else the request is proxied to the target.
HandleRequest(env, path) ==
    /\ hpCalls < MaxCalls
    /\ hpCalls' = hpCalls + 1
    /\ LET f == FilterRules(hpRules, env)
           targets == ExtractTargets(f.rules)
       IN IF f.panic
          THEN /\ hpResponse' = [NoHandled EXCEPT !.env = env, !.path = path, !.status = 500]
               /\ UNCHANGED hpLoadBalancer
          ELSE \E r \in LbSelectTarget(hpLoadBalancer, targets, path) :
                  /\ hpLoadBalancer' = r.lb
                  /\ hpResponse' =
                        [env |-> env, path |-> path, candidates |-> targets,
                         status |-> IF r.target = Panic THEN 500
                                    ELSE IF r.target = NoTarget THEN 503 ELSE 200,
                         target |-> IF r.target = Panic THEN NoTarget ELSE r.target,
                         selectedEnv |-> IF r.target \in {Panic, NoTarget} THEN ""
                                         ELSE EnvOfTarget(f.rules, r.target)]
    /\ UNCHANGED hpRules
    /\ UNCHANGED hpOthers

\* The target lists the Consul key can hold for the route.
ConsulTargetLists == {<<>>, <<"A">>, <<"A", "B">>, <<"B", "D">>}

\* cb.watchRules: a new snapshot from the Consul key, with targets for the
\* route.
ConsulWatch(targets) ==
    /\ hpLoadBalancer.Type = "consul"
    /\ hpLoadBalancer.rules = NoSnapshot
    /\ hpLoadBalancer' = [hpLoadBalancer EXCEPT !.rules = [p \in {"/r"} |-> targets]]
    /\ UNCHANGED <<hpRules, hpCalls, hpResponse>>
    /\ UNCHANGED hpOthers

NextProxy ==
    \/ \E env \in HeaderEnvs, path \in WrrPaths : HandleRequest(env, path)
    \/ \E targets \in ConsulTargetLists : ConsulWatch(targets)

-----------------------------------------------------------------------------
(***************************************************************************)
(* The Server and refreshConfig.  initServer builds engine 0; every        *)
(* snapshot on ConfigChan makes refreshConfig build a new engine into      *)
(* s.Router, replace hp.loadBalancer and refresh the health checker's      *)
(* targets.  The listener runs the engine s.Router pointed to when the     *)
(* goroutine of start() called s.Router.Run.  refreshConfig and the        *)
(* requests run concurrently, so each write and read of shared memory is   *)
(* a step.                                                                 *)
(***************************************************************************)
NotStarted == -1

\* The configuration snapshots: the routes, the balancer and the
\* rate-limit algorithm ("" when cfg.Middleware.RateLimit is off).
Configs ==
    [rules : {{"/a"}, {"/a", "/x"}},
     loadBalancer : {"round_robin", "ketama"},
     algorithm : {"", "token_bucket", "unknown"}]

\* setupGinRouter(cfg): gin.New() with Recovery and the metrics middleware.
SetupGinRouter(cfg) == [cfg |-> cfg, chain |-> <<"Recovery", "Metrics">>, routes |-> {}]

\* setupMiddleware after the engine is made: the rate limiter when it is
\* enabled, then the breaker (the other middleware switched off).
UseMiddleware(engine) ==
    [engine EXCEPT !.chain =
        @ \o (IF engine.cfg.algorithm = "" THEN <<>> ELSE <<engine.cfg.algorithm>>)
          \o <<"Breaker">>]

\* setupRoutes: the fixed routes and the routes of cfg.Routing.Rules.
SetupRoutes(engine) ==
    [engine EXCEPT !.routes = {"/login", "/health", "/status"} \cup engine.cfg.rules]

NoObs == [path |-> "", status |-> 0, arrivedAfter |-> 0, engine |-> NotStarted,
          lbType |-> "", lbData |-> 0, targets |-> 0]

\* initServer: a configuration that passes startup builds engine 0.
ServerInit ==
    /\ \E cfg \in Configs :
          /\ cfg.algorithm # "unknown"
          /\ srvEngines = [k \in {0} |-> SetupRoutes(UseMiddleware(SetupGinRouter(cfg)))]
          /\ lbTypeWord = cfg.loadBalancer
    /\ srvRouter = 0
    /\ srvServing = NotStarted
    /\ srvExited = FALSE
    /\ lbDataWord = 0
    /\ hcTargets = 0
    /\ reloadPc = "wait"
    /\ reloadsDone = 0
    /\ rqPc = "idle"
    /\ rqObs = NoObs

ServerIdle ==
    /\ srvEngines = [k \in {0} |->
          SetupRoutes(UseMiddleware(SetupGinRouter(
              [rules |-> {"/a"}, loadBalancer |-> "round_robin", algorithm |-> ""])))]
    /\ lbTypeWord = "round_robin"
    /\ srvRouter = 0
    /\ srvServing = NotStarted
    /\ srvExited = FALSE
    /\ lbDataWord = 0
    /\ hcTargets = 0
    /\ reloadPc = "wait"
    /\ reloadsDone = 0
    /\ rqPc = "idle"
    /\ rqObs = NoObs

\* start(): the goroutine evaluates s.Router and runs that engine.
Start ==
    /\ ~srvExited
    /\ srvServing = NotStarted
    /\ srvServing' = srvRouter
    /\ UNCHANGED <<srvEngines, srvRouter, srvExited, lbTypeWord, lbDataWord, hcTargets,
                   reloadPc, reloadsDone, rqPc, rqObs>>
    /\ UNCHANGED srvOthers

\* refreshConfig receives newCfg; setupMiddleware: s.Router = setupGinRouter(cfg)
ReloadNewRouter(newCfg) ==
    /\ ~srvExited
    /\ reloadPc = "wait"
    /\ reloadsDone < MaxReloads
    /\ srvEngines' = [k \in 0..(reloadsDone + 1) |->
                         IF k = reloadsDone + 1 THEN SetupGinRouter(newCfg) ELSE srvEngines[k]]
    /\ srvRouter' = reloadsDone + 1
    /\ reloadPc' = "use"
    /\ UNCHANGED <<srvServing, srvExited, lbTypeWord, lbDataWord, hcTargets,
                   reloadsDone, rqPc, rqObs>>
    /\ UNCHANGED srvOthers

\* setupMiddleware: the s.Router.Use calls; an unknown rate-limit
\* algorithm ends the process.
ReloadUse ==
    /\ ~srvExited
    /\ reloadPc = "use"
    /\ IF srvEngines[srvRouter].cfg.algorithm = "unknown"
       THEN srvExited' = TRUE /\ UNCHANGED <<srvEngines, reloadPc>>
       ELSE /\ srvEngines' = [srvEngines EXCEPT ![srvRouter] = UseMiddleware(@)]
            /\ reloadPc' = "routes"
            /\ UNCHANGED srvExited
    /\ UNCHANGED <<srvRouter, srvServing, lbTypeWord, lbDataWord, hcTargets,
                   reloadsDone, rqPc, rqObs>>
    /\ UNCHANGED srvOthers

\* server.setupRoutes(newCfg)
ReloadRoutes ==
    /\ ~srvExited
    /\ reloadPc = "routes"
    /\ srvEngines' = [srvEngines EXCEPT ![srvRouter] = SetupRoutes(@)]
    /\ reloadPc' = "lbType"
    /\ UNCHANGED <<srvRouter, srvServing, srvExited, lbTypeWord, lbDataWord, hcTargets,
                   reloadsDone, rqPc, rqObs>>
    /\ UNCHANGED srvOthers

\* RefreshLoadBalancer: hp.loadBalancer = initializeLoadBalancer(cfg), an
\* interface value stored as two words with no lock held: the type word
ReloadLbType ==
    /\ ~srvExited
    /\ reloadPc = "lbType"
    /\ lbTypeWord' = srvEngines[srvRouter].cfg.loadBalancer
    /\ reloadPc' = "lbData"
    /\ UNCHANGED <<srvEngines, srvRouter, srvServing, srvExited, lbDataWord, hcTargets,
                   reloadsDone, rqPc, rqObs>>
    /\ UNCHANGED srvOthers

\* ... and the data word
ReloadLbData ==
    /\ ~srvExited
    /\ reloadPc = "lbData"
    /\ lbDataWord' = srvRouter
    /\ reloadPc' = "targets"
    /\ UNCHANGED <<srvEngines, srvRouter, srvServing, srvExited, lbTypeWord, hcTargets,
                   reloadsDone, rqPc, rqObs>>
    /\ UNCHANGED srvOthers

\* HealthChecker.RefreshTargets(newCfg): the whole replacement is made
\* with h.mu held; the snapshot is then processed.
ReloadRefreshTargets ==
    /\ ~srvExited
    /\ reloadPc = "targets"
    /\ hcTargets' = srvRouter
    /\ reloadsDone' = reloadsDone + 1
    /\ reloadPc' = "wait"
    /\ UNCHANGED <<srvEngines, srvRouter, srvServing, srvExited, lbTypeWord, lbDataWord,
                   rqPc, rqObs>>
    /\ UNCHANGED srvOthers

\* A request reaches the listener: the engine it runs answers 404 for a
\* path it has no route for, else the proxy handler starts.
RqArrive(path) ==
    /\ ~srvExited
    /\ srvServing # NotStarted
    /\ rqPc = "idle"
    /\ LET found == path \in srvEngines[srvServing].routes
       IN /\ rqObs' = [NoObs EXCEPT !.path = path,
                                    !.status = IF found THEN 0 ELSE 404,
                                    !.arrivedAfter = reloadsDone,
                                    !.engine = srvServing]
          /\ rqPc' = IF found THEN "lbType" ELSE "idle"
    /\ UNCHANGED <<srvEngines, srvRouter, srvServing, srvExited, lbTypeWord, lbDataWord,
                   hcTargets, reloadPc, reloadsDone>>
    /\ UNCHANGED srvOthers

\* selectTarget: hp.loadBalancer.SelectTarget loads the interface value
\* with no lock held: the type word
RqReadLbType ==
    /\ ~srvExited
    /\ rqPc = "lbType"
    /\ rqObs' = [rqObs EXCEPT !.lbType = lbTypeWord]
    /\ rqPc' = "lbData"
    /\ UNCHANGED <<srvEngines, srvRouter, srvServing, srvExited, lbTypeWord, lbDataWord,
                   hcTargets, reloadPc, reloadsDone>>
    /\ UNCHANGED srvOthers

\* ... and the data word; the request is proxied and UpdateRequestCount
\* finds the target with the health checker's lock held.
RqReadLbData ==
    /\ ~srvExited
    /\ rqPc = "lbData"
    /\ rqObs' = [rqObs EXCEPT !.lbData = lbDataWord, !.targets = hcTargets, !.status = 200]
    /\ rqPc' = "idle"
    /\ UNCHANGED <<srvEngines, srvRouter, srvServing, srvExited, lbTypeWord, lbDataWord,
                   hcTargets, reloadPc, reloadsDone>>
    /\ UNCHANGED srvOthers

RequestPathsServed == {"/a", "/x"}

NextServer ==
    \/ Start
    \/ \E newCfg \in Configs : ReloadNewRouter(newCfg)
    \/ ReloadUse
    \/ ReloadRoutes
    \/ ReloadLbType
    \/ ReloadLbData
    \/ ReloadRefreshTargets
    \/ \E path \in RequestPathsServed : RqArrive(path)
    \/ RqReadLbType
    \/ RqReadLbData

-----------------------------------------------------------------------------
(***************************************************************************)
(* Token bucket.  The limiter is go.uber.org/ratelimit with slack burst:   *)
(* it keeps the time of the next permission; Take reads the clock, moves   *)
(* that time on by one interval (1 / QPS second), keeping it no more than  *)
(* burst intervals behind the clock, sleeps until it when it lies ahead    *)
(* and returns the time the permission was granted.  Time is counted in    *)
(* ticks, PerRequest ticks to the interval.                                *)
(***************************************************************************)
PerRequest == 2

\* The requests that can be in the middleware at once.
TbCallers == {1, 2}

\* One second, in ticks.
Second(qps) == qps * PerRequest

\* limiter.Take() at clock time now: the limiter's new state and the time
\* returned (after now when the call has to sleep).
TakeNoPacing(state, now, burst) == [state |-> state, time |-> now]

Take(state, now, burst) ==
    LET maxSlack == burst * PerRequest
        next == IF state = 0 \/ (maxSlack = 0 /\ now - state > PerRequest) THEN now
                ELSE IF maxSlack > 0 /\ now - state > maxSlack + PerRequest THEN now - maxSlack
                ELSE state + PerRequest
    IN [state |-> next, time |-> IF next > now THEN next ELSE now]

\* if waitDuration > 0 { 429 } else { c.Next() }
Admit(waitDuration) == IF waitDuration > 0 THEN 429 ELSE 200

\* TokenBucketRateLimit(): NewTokenBucketLimiter(qps, burst)
TokenBucketInit ==
    /\ tbQps \in 1..MaxQps
    /\ tbBurst \in 0..MaxSlack
    /\ tbClock = 1
    /\ tbState = 0
    /\ tbPc = [c \in TbCallers |-> "idle"]
    /\ tbNow = [c \in TbCallers |-> 0]
    /\ tbTakeTime = [c \in TbCallers |-> 0]
    /\ tbThrottled = [c \in TbCallers |-> FALSE]
    /\ tbStatus = [c \in TbCallers |-> 0]
    /\ tbAdmitted = [t \in 1..MaxTime |-> 0]

TokenBucketIdle ==
    /\ tbQps = 1
    /\ tbBurst = 0
    /\ tbClock = 1
    /\ tbState = 0
    /\ tbPc = [c \in TbCallers |-> "idle"]
    /\ tbNow = [c \in TbCallers |-> 0]
    /\ tbTakeTime = [c \in TbCallers |-> 0]
    /\ tbThrottled = [c \in TbCallers |-> FALSE]
    /\ tbStatus = [c \in TbCallers |-> 0]
    /\ tbAdmitted = [t \in 1..MaxTime |-> 0]

\* Time passes.
TbTick ==
    /\ tbClock < MaxTime
    /\ tbClock' = tbClock + 1
    /\ UNCHANGED <<tbQps, tbBurst, tbState, tbPc, tbNow, tbTakeTime, tbThrottled,
                   tbStatus, tbAdmitted>>
    /\ UNCHANGED tbOthers

\* The middleware: now := time.Now()
TbReadNow(c) ==
    /\ tbPc[c] = "idle"
    /\ tbNow' = [tbNow EXCEPT ![c] = tbClock]
    /\ tbPc' = [tbPc EXCEPT ![c] = "take"]
    /\ tbStatus' = [tbStatus EXCEPT ![c] = 0]
    /\ tbThrottled' = [tbThrottled EXCEPT ![c] = FALSE]
    /\ UNCHANGED <<tbQps, tbBurst, tbClock, tbState, tbTakeTime, tbAdmitted>>
    /\ UNCHANGED tbOthers

\* The middleware: limiter.Take() reads the clock and books the permission;
\* a permission that lies ahead keeps the call asleep until then.
TbTake(c) ==
    /\ tbPc[c] = "take"
    /\ LET r == Take(tbState, tbClock, tbBurst)
       IN /\ tbState' = r.state
          /\ tbTakeTime' = [tbTakeTime EXCEPT ![c] = r.time]
          /\ tbThrottled' = [tbThrottled EXCEPT ![c] = r.time > tbClock]
    /\ tbPc' = [tbPc EXCEPT ![c] = "decide"]
    /\ UNCHANGED <<tbQps, tbBurst, tbClock, tbNow, tbStatus, tbAdmitted>>
    /\ UNCHANGED tbOthers

\* The middleware once Take has returned (the locals are dropped with the
\* request): waitDuration := takeTime.Sub(now),
\* 429 when it is positive, else the request goes downstream.
TbDecide(c) ==
    /\ tbPc[c] = "decide"
    /\ tbClock >= tbTakeTime[c]
    /\ LET status == Admit(tbTakeTime[c] - tbNow[c])
       IN /\ tbStatus' = [tbStatus EXCEPT ![c] = status]
          /\ tbAdmitted' = IF status = 200
                           THEN [tbAdmitted EXCEPT ![tbTakeTime[c]] = @ + 1]
                           ELSE tbAdmitted
    /\ tbPc' = [tbPc EXCEPT ![c] = "idle"]
    /\ tbNow' = [tbNow EXCEPT ![c] = 0]
    /\ tbTakeTime' = [tbTakeTime EXCEPT ![c] = 0]
    /\ UNCHANGED <<tbQps, tbBurst, tbClock, tbState, tbThrottled>>
    /\ UNCHANGED tbOthers

NextTokenBucket ==
    \/ TbTick
    \/ \E c \in TbCallers : TbReadNow(c)
    \/ \E c \in TbCallers : TbTake(c)
    \/ \E c \in TbCallers : TbDecide(c)

-----------------------------------------------------------------------------
(***************************************************************************)
(* The circuit breaker (unnamed/part_017).  Breaker() configures one       *)
(* hystrix command per route and runs every request inside hystrix.Do:     *)
(* the run function is the rest of the chain (c.Next()), the fallback      *)
(* answers 503.  The command is the library's: an open circuit, a full     *)
(* set of tickets (MaxConcurrentRequests) and a run longer than Timeout    *)
(* all end in the fallback; each of them counts as an error in the         *)
(* command's rolling metrics, a run that returns nil counts as a success   *)
(* whatever status it wrote.                                               *)
(***************************************************************************)
\* The requests that can be in the middleware at once.
BrCallers == {1, 2, 3}

\* The error rates of the configuration, in hundredths.
ErrorRates == {0, 50}

\* ErrorPercentThreshold: int(cfg.Traffic.Breaker.ErrorRate * 100)
ErrorPercentThreshold(errorRate) == errorRate

\* hystrix.ConfigureCommand: a threshold of 0 stands for "not set", and
\* the command gets the library's default, 50.
CommandErrorPercent(threshold) == IF threshold = 0 THEN 50 ELSE threshold

\* The error percentage of the rolling metrics, rounded to the nearest.
ErrorPercent(attempts, errs) ==
    IF attempts = 0 THEN 0 ELSE (errs * 200 + attempts) \div (2 * attempts)

\* The circuit is open: it was opened before, or the metrics hold at
\* least RequestVolumeThreshold requests and are not healthy.
IsOpen(open, attempts, errs, errorRate) ==
    \/ open
    \/ /\ attempts >= MinRequests
       /\ ErrorPercent(attempts, errs) >= CommandErrorPercent(ErrorPercentThreshold(errorRate))

BreakerInit ==
    /\ brErrorRate \in ErrorRates
    /\ brMaxConcurrent \in 1..MaxConcurrent
    /\ brActive = 0
    /\ brAttempts = 0
    /\ brErrs = 0
    /\ brOpen = FALSE
    /\ brTrial = FALSE
    /\ brPc = [c \in BrCallers |-> "idle"]
    /\ brStatus = [c \in BrCallers |-> 0]
    /\ brFallback = [c \in BrCallers |-> FALSE]
    /\ brTimedOut = FALSE
    /\ brLate = [c \in BrCallers |-> FALSE]
    /\ brWriters = [c \in BrCallers |-> {}]

BreakerIdle ==
    /\ brErrorRate = 50
    /\ brMaxConcurrent = 1
    /\ brActive = 0
    /\ brAttempts = 0
    /\ brErrs = 0
    /\ brOpen = FALSE
    /\ brTrial = FALSE
    /\ brPc = [c \in BrCallers |-> "idle"]
    /\ brStatus = [c \in BrCallers |-> 0]
    /\ brFallback = [c \in BrCallers |-> FALSE]
    /\ brTimedOut = FALSE
    /\ brLate = [c \in BrCallers |-> FALSE]
    /\ brWriters = [c \in BrCallers |-> {}]

\* The fallback: c.JSON(503, ...); c.Abort()
BrFallback(c) ==
    /\ brStatus' = [brStatus EXCEPT ![c] = 503]
    /\ brFallback' = [brFallback EXCEPT ![c] = TRUE]
    /\ brWriters' = [brWriters EXCEPT ![c] = @ \cup {"fallback"}]
    /\ brAttempts' = brAttempts + 1
    /\ brErrs' = brErrs + 1

\* hystrix.Do(path, run, fallback), the entry of the command: an open
\* circuit short-circuits the request unless it is the one test after the
\* sleep window; a request that finds no ticket is rejected; both go to
\* the fallback.  Otherwise the request takes a ticket and run starts.
BrEnter(c) ==
    /\ brPc[c] = "idle"
    /\ ~brLate[c]
    /\ brWriters[c] = {}
    /\ brAttempts < MaxBrRequests
    /\ LET open == IsOpen(brOpen, brAttempts, brErrs, brErrorRate)
           allowed == ~open \/ brTrial
       IN /\ brOpen' = open
          /\ brTrial' = (brTrial /\ ~open)
          /\ IF allowed /\ brActive < brMaxConcurrent
             THEN /\ brActive' = brActive + 1
                  /\ brPc' = [brPc EXCEPT ![c] = "run"]
                  /\ brStatus' = [brStatus EXCEPT ![c] = 0]
                  /\ brFallback' = [brFallback EXCEPT ![c] = FALSE]
                  /\ UNCHANGED <<brAttempts, brErrs, brWriters>>
             ELSE /\ BrFallback(c)
                  /\ UNCHANGED <<brActive, brPc>>
    /\ UNCHANGED <<brErrorRate, brMaxConcurrent, brTimedOut, brLate>>
    /\ UNCHANGED brOthers

\* run within the timeout: c.Next() has written the downstream status and
\* run returns c.Err(), nil; the command counts a success, and the success
\* of the test request closes the circuit and clears the metrics.
BrRunDone(c, status) ==
    /\ brPc[c] = "run"
    /\ brActive' = brActive - 1
    /\ brPc' = [brPc EXCEPT ![c] = "idle"]
    /\ brStatus' = [brStatus EXCEPT ![c] = status]
    /\ brWriters' = [brWriters EXCEPT ![c] = @ \cup {"downstream"}]
    /\ brOpen' = FALSE
    /\ brAttempts' = IF brOpen THEN 1 ELSE brAttempts + 1
    /\ brErrs' = IF brOpen THEN 0 ELSE brErrs
    /\ UNCHANGED <<brErrorRate, brMaxConcurrent, brTrial, brFallback, brTimedOut, brLate>>
    /\ UNCHANGED brOthers

\* run is still going when Timeout has passed: the command counts an
\* error and calls the fallback; the goroutine of run goes on.
BrRunTimeout(c) ==
    /\ brPc[c] = "run"
    /\ brActive' = brActive - 1
    /\ brPc' = [brPc EXCEPT ![c] = "idle"]
    /\ BrFallback(c)
    /\ brTimedOut' = TRUE
    /\ brLate' = [brLate EXCEPT ![c] = TRUE]
    /\ UNCHANGED <<brErrorRate, brMaxConcurrent, brOpen, brTrial>>
    /\ UNCHANGED brOthers

\* The run of a request that timed out: c.Next() gets to the downstream
\* handler, which writes its status to the response of the request.
BrLateRun(c) ==
    /\ brLate[c]
    /\ brLate' = [brLate EXCEPT ![c] = FALSE]
    /\ brWriters' = [brWriters EXCEPT ![c] = @ \cup {"downstream"}]
    /\ UNCHANGED <<brErrorRate, brMaxConcurrent, brActive, brAttempts, brErrs, brOpen,
                   brTrial, brPc, brStatus, brFallback, brTimedOut>>
    /\ UNCHANGED brOthers

\* The response is complete and the next request of the caller may come.
BrRespond(c) ==
    /\ brPc[c] = "idle"
    /\ ~brLate[c]
    /\ brWriters[c] # {}
    /\ brWriters' = [brWriters EXCEPT ![c] = {}]
    /\ UNCHANGED <<brErrorRate, brMaxConcurrent, brActive, brAttempts, brErrs, brOpen,
                   brTrial, brPc, brStatus, brFallback, brTimedOut, brLate>>
    /\ UNCHANGED brOthers

\* SleepWindow has passed since the circuit opened.
BrSleepWindow ==
    /\ brOpen
    /\ ~brTrial
    /\ brTrial' = TRUE
    /\ UNCHANGED <<brErrorRate, brMaxConcurrent, brActive, brAttempts, brErrs, brOpen,
                   brPc, brStatus, brFallback, brTimedOut, brLate, brWriters>>
    /\ UNCHANGED brOthers

\* The rolling metrics have aged out.
BrMetricsRoll ==
    /\ brAttempts > 0
    /\ brAttempts' = 0
    /\ brErrs' = 0
    /\ UNCHANGED <<brErrorRate, brMaxConcurrent, brActive, brOpen, brTrial,
                   brPc, brStatus, brFallback, brTimedOut, brLate, brWriters>>
    /\ UNCHANGED brOthers

NextBreaker ==
    \/ \E c \in BrCallers : BrEnter(c)
    \/ \E c \in BrCallers, status \in {200, 502} : BrRunDone(c, status)
    \/ \E c \in BrCallers : BrRunTimeout(c)
    \/ \E c \in BrCallers : BrLateRun(c)
    \/ \E c \in BrCallers : BrRespond(c)
    \/ BrSleepWindow
    \/ BrMetricsRoll

-----------------------------------------------------------------------------
(***************************************************************************)
(* The consistent-hash balancer (internal/core/loadbalancer/ketame.go).    *)
(* The ring holds replicas virtual nodes per target, each at the hash of   *)
(* "<target>-<j>"; a request goes to the owner of the first virtual node   *)
(* at or after the hash of req.RemoteAddr.  The hash is the first four     *)
(* bytes of an MD5 sum: a fixed function, taken here as any function       *)
(* from the strings hashed to a small space of hash values.  Strings are   *)
(* sequences of characters, a remote address is "<ip>:<port>" as           *)
(* net/http sets it.                                                       *)
(***************************************************************************)
\* The candidate lists SelectTarget is called with.
KtTargetLists ==
    {<<>>, <<"A", "B", "C">>, <<"A", "B">>, <<"A", "C">>, <<"B", "C">>}

\* The clients' connections: IP and port.  They are three connections of
\* one client, picked so that their addresses hash to the three values of
\* HashSpace (AddrHash).
RemoteAddrs == {[ip |-> "x", port |-> p] : p \in {"0", "1", "2"}}

\* req.RemoteAddr
RemoteAddr(conn) == <<conn.ip, ":", conn.port>>

\* strconv.Itoa(j)
Itoa(j) == <<"0", "1", "2", "3", "4", "5", "6", "7", "8", "9">>[j + 1]

\* k.replicas, as given to NewKetama.
ReplicaCounts == {0, 1, 2}

HashSpace == {0, 1, 2}

AddrHash(conn) == CHOOSE h \in HashSpace : Itoa(h) = conn.port

\* node + "-" + strconv.Itoa(j)
VnodeKey(node, j) == <<node, "-", Itoa(j)>>

\* The strings that get hashed with a ring of r replicas.
HashedStrings(r) ==
    {VnodeKey(n, j) : n \in {"A", "B", "C"}, j \in 0..(r - 1)}
        \cup {RemoteAddr(conn) : conn \in RemoteAddrs}

\* The slice of hashes buildRing appends, in the order of the targets.
RingSlots(targets, replicas, hash) ==
    [s \in 1..(Len(targets) * replicas) |->
        hash[VnodeKey(targets[((s - 1) \div replicas) + 1], (s - 1) % replicas)]]

\* A ring whose entries are owned by position, hash modulo the number of
\* targets.
BuildRingModulo(targets, replicas, hash) ==
    LET slots == RingSlots(targets, replicas, hash)
    IN [nodes |-> targets,
        hashRing |-> SortSeq(slots, LAMBDA x, y : x < y),
        hashMap |-> [h \in Range(slots) |->
                        targets[(h % Len(targets)) + 1]]]

\* buildRing(targets): the sorted ring and the owner of every hash on it,
\* the last target written for that hash.
BuildRing(targets, replicas, hash) ==
    LET slots == RingSlots(targets, replicas, hash)
        last(h) == CHOOSE s \in DOMAIN slots :
                       /\ slots[s] = h
                       /\ \A u \in DOMAIN slots : slots[u] = h => u <= s
    IN [nodes |-> targets,
        hashRing |-> SortSeq(slots, LAMBDA x, y : x < y),
        hashMap |-> [h \in Range(slots) |->
                        targets[((last(h) - 1) \div replicas) + 1]]]

\* findNearest(hash): the first index (from 0) of the ring whose entry is
\* not below hash, 0 when there is none.
FindNearest(hashRing, hash) ==
    LET at == {i \in DOMAIN hashRing : hashRing[i] >= hash}
    IN IF at = {} THEN 0
       ELSE (CHOOSE i \in at : \A u \in at : i <= u) - 1

\* The end of SelectTarget: targets[0] on an empty ring, else the owner of
\* the nearest entry.
Lookup(hashRing, hashMap, targets, key) ==
    IF Len(hashRing) = 0 THEN targets[1]
    ELSE hashMap[hashRing[FindNearest(hashRing, key) + 1]]

KtCallers == {1, 2}

\* The list without its element b.
Without(targets, b) == SelectSeq(targets, LAMBDA t : t # b)

\* The target whose removal turns the list before into the list after,
\* NoTarget when there is none.
Dropped(before, after) ==
    IF \E b \in Range(before) : after = Without(before, b)
    THEN CHOOSE b \in Range(before) : after = Without(before, b)
    ELSE NoTarget

NoCall == [targets |-> <<>>, conn |-> [ip |-> "", port |-> ""]]
NoKtResponse == [conn |-> [ip |-> "", port |-> ""], target |-> NoTarget]

\* NewKetama(replicas)
KetamaInit ==
    /\ ktReplicas \in ReplicaCounts
    /\ ktHash \in [HashedStrings(ktReplicas) -> HashSpace]
    /\ \A conn \in RemoteAddrs : ktHash[RemoteAddr(conn)] = AddrHash(conn)
    /\ ktNodes = <<>>
    /\ ktHashRing = <<>>
    /\ ktHashMap = <<>>
    /\ ktPc = [c \in KtCallers |-> "idle"]
    /\ ktCall = [c \in KtCallers |-> NoCall]
    /\ ktResponse = NoKtResponse
    /\ ktRemoved = NoTarget

KetamaIdle ==
    /\ ktReplicas = 0
    /\ ktHash = [s \in HashedStrings(0) |-> 0]
    /\ ktNodes = <<>>
    /\ ktHashRing = <<>>
    /\ ktHashMap = <<>>
    /\ ktPc = [c \in KtCallers |-> "idle"]
    /\ ktCall = [c \in KtCallers |-> NoCall]
    /\ ktResponse = NoKtResponse
    /\ ktRemoved = NoTarget

\* SelectTarget(targets, req) up to the first RUnlock: "" for no targets,
\* else the comparison of k.nodes with targets.
KtCompare(c, targets, conn) ==
    /\ ktPc[c] = "idle"
    /\ IF Len(targets) = 0
       THEN /\ ktResponse' = [conn |-> conn, target |-> NoTarget]
            /\ UNCHANGED <<ktPc, ktCall>>
       ELSE /\ ktPc' = [ktPc EXCEPT ![c] = IF ktNodes # targets THEN "rebuild" ELSE "lookup"]
            /\ ktCall' = [ktCall EXCEPT ![c] = [targets |-> targets, conn |-> conn]]
            /\ UNCHANGED ktResponse
    /\ UNCHANGED <<ktReplicas, ktHash, ktNodes, ktHashRing, ktHashMap, ktRemoved>>
    /\ UNCHANGED ktOthers

\* if needRebuild: under the write lock, buildRing(targets) unless k.nodes
\* equals targets by now.
KtRebuild(c) ==
    /\ ktPc[c] = "rebuild"
    /\ IF ktNodes # ktCall[c].targets
       THEN LET ring == BuildRing(ktCall[c].targets, ktReplicas, ktHash)
            IN /\ ktNodes' = ring.nodes
               /\ ktHashRing' = ring.hashRing
               /\ ktHashMap' = ring.hashMap
               /\ ktRemoved' = Dropped(ktNodes, ring.nodes)
       ELSE UNCHANGED <<ktNodes, ktHashRing, ktHashMap, ktRemoved>>
    /\ ktPc' = [ktPc EXCEPT ![c] = "lookup"]
    /\ UNCHANGED <<ktReplicas, ktHash, ktCall, ktResponse>>
    /\ UNCHANGED ktOthers

\* The rest of SelectTarget, under the read lock:
\* key := k.hashKey(req.RemoteAddr); return the owner of the nearest entry.
KtLookup(c) ==
    /\ ktPc[c] = "lookup"
    /\ ktResponse' =
          [conn |-> ktCall[c].conn,
           target |-> Lookup(ktHashRing, ktHashMap, ktCall[c].targets,
                             ktHash[RemoteAddr(ktCall[c].conn)])]
    /\ ktPc' = [ktPc EXCEPT ![c] = "idle"]
    /\ ktCall' = [ktCall EXCEPT ![c] = NoCall]
    /\ UNCHANGED <<ktReplicas, ktHash, ktNodes, ktHashRing, ktHashMap, ktRemoved>>
    /\ UNCHANGED ktOthers

\* The calls of the requests that arrive one after the other.
NextKetama ==
    \/ \E targets \in KtTargetLists, conn \in RemoteAddrs : KtCompare(1, targets, conn)
    \/ KtRebuild(1)
    \/ KtLookup(1)

\* The calls of requests served at the same time: the steps of the callers
\* interleave, each step under the lock it takes.
NextKetamaConcurrent ==
    \/ \E c \in KtCallers, targets \in KtTargetLists, conn \in RemoteAddrs :
          KtCompare(c, targets, conn)
    \/ \E c \in KtCallers : KtRebuild(c)
    \/ \E c \in KtCallers : KtLookup(c)

-----------------------------------------------------------------------------
(***************************************************************************)
(* The health checker (unnamed/part_004) and the list of unhealthy         *)
(* targets of /status (unnamed/part_000).  The table maps a host to the    *)
(* status of the target; RefreshTargets and UpdateRequestCount hold the    *)
(* write lock and a heartbeat check holds the read lock from its first     *)
(* probe to its last, so each of the three is one step.  The time stamps   *)
(* of a status are left out.                                               *)
(***************************************************************************)
\* A routing rule, as far as the health checker reads it.
HcRule(target, protocol) == [Target |-> target, Protocol |-> protocol]

\* The routing rules of the configurations: an HTTP target, a gRPC target
\* (host:port, no scheme), an HTTP rule whose target has no scheme, and a
\* rule whose protocol is none of http, grpc and websocket.
HcConfigs ==
    { <<HcRule("http://h1", "http")>>,
      <<HcRule("http://h1", "http"), HcRule("h2:1", "grpc")>>,
      <<HcRule("h2:1", "grpc")>>,
      <<HcRule("ws://h1", "websocket"), HcRule("h2:1", "http")>>,
      <<HcRule("http://h1", "tcp"), HcRule("h2:1", "grpc")>> }

\* url.Parse(target): the host of a URL with a scheme; "host:port" alone
\* does not parse (first path segment in URL cannot contain colon).
UrlParse(target) ==
    CASE target = "http://h1" -> [Host |-> "h1", err |-> FALSE]
      [] target = "ws://h1" -> [Host |-> "h1", err |-> FALSE]
      [] OTHER -> [Host |-> "", err |-> TRUE]

\* normalizeTarget(rule)
NormalizeTarget(rule) ==
    IF rule.Protocol = "grpc" THEN [host |-> rule.Target, err |-> FALSE]
    ELSE [host |-> UrlParse(rule.Target).Host, err |-> UrlParse(rule.Target).err]

\* normalizeTargetHost(target): the target itself when it does not parse.
NormalizeTargetHost(target) ==
    IF UrlParse(target).err THEN target ELSE UrlParse(target).Host

\* The targets the proxy forwards to.
ForwardTargets == {"http://h1", "ws://h1", "h2:1"}

\* The protocols performHeartbeatCheck has a probe for.
ProbedProtocols == {"http", "", "grpc", "websocket"}

\* &TargetStatus{URL: rule.Target, Protocol: rule.Protocol, ...}
NewTargetStatus(rule) ==
    [URL |-> rule.Target, Protocol |-> rule.Protocol,
     RequestCount |-> 0, SuccessCount |-> 0, FailureCount |-> 0,
     ProbeRequestCount |-> 0, ProbeSuccessCount |-> 0, ProbeFailureCount |-> 0]

NoStats == [h \in {} |-> NewTargetStatus(HcRule("", ""))]

\* The loop of RefreshTargets over the first n rules.
RECURSIVE RefreshRules(_, _, _)
RefreshRules(oldStats, rules, n) ==
    IF n = 0 THEN NoStats
    ELSE LET done == RefreshRules(oldStats, rules, n - 1)
             norm == NormalizeTarget(rules[n])
             host == norm.host
         IN IF norm.err THEN done
            ELSE [h \in DOMAIN done \cup {host} |->
                     IF h # host THEN done[h]
                     ELSE IF host \in DOMAIN oldStats THEN oldStats[host]
                     ELSE NewTargetStatus(rules[n])]

\* RefreshTargets(cfg): the new table.
RefreshTargetsReset(oldStats, rules) == RefreshRules(NoStats, rules, Len(rules))

RefreshTargetsKeepAll(oldStats, rules) ==
    LET new == RefreshRules(oldStats, rules, Len(rules))
    IN [h \in DOMAIN new \cup DOMAIN oldStats |->
           IF h \in DOMAIN new THEN new[h] ELSE oldStats[h]]

RefreshTargets(oldStats, rules) == RefreshRules(oldStats, rules, Len(rules))

\* One round of the loop of performHeartbeatCheck: ProbeRequestCount++ and
\* the probe of the protocol, checkHTTP, checkGRPC or checkWebSocket, which
\* counts a success or a failure; no probe for any other protocol.
ProbeCountsBoth(stat, reached) ==
    [stat EXCEPT !.ProbeRequestCount = @ + 1,
                 !.ProbeSuccessCount = @ + 1,
                 !.ProbeFailureCount = @ + 1]

Probe(stat, reached) ==
    LET probed == [stat EXCEPT !.ProbeRequestCount = @ + 1]
    IN IF stat.Protocol \notin ProbedProtocols THEN probed
       ELSE IF reached THEN [probed EXCEPT !.ProbeSuccessCount = @ + 1]
       ELSE [probed EXCEPT !.ProbeFailureCount = @ + 1]

\* performHeartbeatCheck(), with the hosts whose probe succeeds.
PerformHeartbeatCheck(stats, reachable) ==
    [h \in DOMAIN stats |-> Probe(stats[h], h \in reachable)]

\* UpdateRequestCount(target, success)
UpdateRequestCount(stats, target, success) ==
    LET host == NormalizeTargetHost(target)
    IN IF host \in DOMAIN stats
       THEN [stats EXCEPT ![host] =
                [@ EXCEPT !.RequestCount = @ + 1,
                          !.SuccessCount = IF success THEN @ + 1 ELSE @,
                          !.FailureCount = IF success THEN @ ELSE @ + 1]]
       ELSE stats

\* GetAllStats(): the copies of the statuses.
GetAllStats(stats) == {stats[h] : h \in DOMAIN stats}

\* getUnhealthyTargets(): the URLs /status lists as unhealthy.
GetUnhealthyTargets(stats) ==
    {stat.URL : stat \in {s \in GetAllStats(stats) : s.ProbeFailureCount > s.ProbeSuccessCount}}

\* The statuses last reported, once the table is stats.
Reported(last, stats) ==
    [h \in DOMAIN last \cup DOMAIN stats |-> IF h \in DOMAIN stats THEN stats[h] ELSE last[h]]

\* InitHealthChecker(cfg): the empty maps, then RefreshTargets(cfg).
HealthInit ==
    /\ hcCfg \in HcConfigs
    /\ targetStats = RefreshTargets(NoStats, hcCfg)
    /\ hcTicks = 0
    /\ hcForwarded = 0
    /\ hcRefreshes = 0
    /\ hcDown = DOMAIN targetStats
    /\ hcLast = targetStats

HealthIdle ==
    /\ hcCfg = <<>>
    /\ targetStats = NoStats
    /\ hcTicks = 0
    /\ hcForwarded = 0
    /\ hcRefreshes = 0
    /\ hcDown = {}
    /\ hcLast = NoStats

\* refreshConfig: health.GetGlobalHealthChecker().RefreshTargets(newCfg)
HcRefresh(rules) ==
    /\ hcRefreshes < MaxRefreshes
    /\ hcCfg' = rules
    /\ targetStats' = RefreshTargets(targetStats, rules)
    /\ hcRefreshes' = hcRefreshes + 1
    /\ hcDown' = hcDown \cap DOMAIN targetStats'
    /\ hcLast' = Reported(hcLast, targetStats')
    /\ UNCHANGED <<hcTicks, hcForwarded>>
    /\ UNCHANGED hcOthers

\* startHeartbeat, a tick: performHeartbeatCheck()
HcHeartbeat(reachable) ==
    /\ hcTicks < MaxTicks
    /\ reachable \subseteq DOMAIN targetStats
    /\ targetStats' = PerformHeartbeatCheck(targetStats, reachable)
    /\ hcTicks' = hcTicks + 1
    /\ hcDown' = hcDown \ reachable
    /\ hcLast' = Reported(hcLast, targetStats')
    /\ UNCHANGED <<hcCfg, hcForwarded, hcRefreshes>>
    /\ UNCHANGED hcOthers

\* proxyDirect: a target that does not parse is answered 502 by
\* handleProxyError; else ServeHTTP runs, its ErrorHandler counts a failure
\* on a transport error, and the success is counted after ServeHTTP returns.
ProxyDirect(stats, target, transportError) ==
    IF UrlParse(target).err THEN UpdateRequestCount(stats, target, FALSE)
    ELSE LET served == IF transportError THEN UpdateRequestCount(stats, target, FALSE)
                       ELSE stats
         IN UpdateRequestCount(served, target, TRUE)

HcProxyDirect(target, transportError) ==
    /\ hcForwarded < MaxForwarded
    /\ targetStats' = ProxyDirect(targetStats, target, transportError)
    /\ hcForwarded' = hcForwarded + 1
    /\ hcLast' = Reported(hcLast, targetStats')
    /\ UNCHANGED <<hcCfg, hcTicks, hcRefreshes, hcDown>>
    /\ UNCHANGED hcOthers

\* proxyWithPool after client.Do: UpdateRequestCount(target, success), from
\* handleProxyError when it failed
HcUpdate(target, success) ==
    /\ hcForwarded < MaxForwarded
    /\ targetStats' = UpdateRequestCount(targetStats, target, success)
    /\ hcForwarded' = hcForwarded + 1
    /\ hcLast' = Reported(hcLast, targetStats')
    /\ UNCHANGED <<hcCfg, hcTicks, hcRefreshes, hcDown>>
    /\ UNCHANGED hcOthers

NextHealth ==
    \/ \E rules \in HcConfigs : HcRefresh(rules)
    \/ \E reachable \in SUBSET {"h1", "h2:1"} : HcHeartbeat(reachable)
    \/ \E target \in ForwardTargets, success \in BOOLEAN : HcUpdate(target, success)
    \/ \E target \in ForwardTargets, transportError \in BOOLEAN :
          HcProxyDirect(target, transportError)

-----------------------------------------------------------------------------
(***************************************************************************)
(* The middleware chain.  gin keeps the handlers of a router group in a    *)
(* slice: Use appends to it, Group copies it, and a route registered on a  *)
(* group gets the group's slice followed by its own handler.  A request    *)
(* runs the chain of its route from the first handler on; a handler that   *)
(* aborts writes the status and the rest of the chain is not run.          *)
(***************************************************************************)
MiddlewareSwitches == {"IPAcl", "AntiInjection", "RateLimit", "Breaker", "Tracing", "Auth"}

MiddlewareConfigs == [MiddlewareSwitches -> BOOLEAN]

\* r.Use(h) when the switch is on
Use(handlers, cfg, stage) == IF cfg[stage] THEN Append(handlers, stage) ELSE handlers

\* Same switches, the rate limiter added before the security middleware.
SetupMiddlewareRateLimitFirst(cfg) ==
    Use(Use(Use(Use(Use(<<"Recovery", "Metrics">>, cfg, "RateLimit"), cfg, "IPAcl"),
        cfg, "AntiInjection"), cfg, "Breaker"), cfg, "Tracing")

\* setupMiddleware: a new engine with Recovery and Metrics, then the
\* security middleware, the rate limiter, the breaker and tracing, each
\* when its switch is on (no plugin loaded, a known rate-limit algorithm).
SetupMiddleware(cfg) ==
    Use(Use(Use(Use(Use(<<"Recovery", "Metrics">>, cfg, "IPAcl"), cfg, "AntiInjection"),
        cfg, "RateLimit"), cfg, "Breaker"), cfg, "Tracing")

OpenRoutes == {"/login", "/health", "/status"}

ProtectedRoutes == {"/a"}

\* setupRoutes: the fixed routes are registered on the engine, the routing
\* rules on the group "protected", which uses Auth when it is switched on.
RouteHandlers(cfg, path) ==
    IF path \in OpenRoutes
    THEN Append(SetupMiddleware(cfg), "Dispatch")
    ELSE Append(Use(SetupMiddleware(cfg), cfg, "Auth"), "Dispatch")

\* The status a middleware writes when it aborts the request.
AbortStatus ==
    [stage \in {"IPAcl", "AntiInjection", "RateLimit", "Breaker", "Auth"} |->
        CASE stage = "IPAcl" -> 403
          [] stage = "AntiInjection" -> 400
          [] stage = "RateLimit" -> 429
          [] stage = "Breaker" -> 503
          [] OTHER -> 401]

MiddlewareInit ==
    /\ mwCfg \in MiddlewareConfigs
    /\ mwRoutes = [path \in OpenRoutes \cup ProtectedRoutes |-> RouteHandlers(mwCfg, path)]
    /\ mwPath = ""
    /\ mwIndex = 0
    /\ mwTrace = <<>>
    /\ mwStatus = 0

MiddlewareIdle ==
    /\ mwCfg = [stage \in MiddlewareSwitches |-> FALSE]
    /\ mwRoutes = [path \in OpenRoutes \cup ProtectedRoutes |-> RouteHandlers(mwCfg, path)]
    /\ mwPath = ""
    /\ mwIndex = 0
    /\ mwTrace = <<>>
    /\ mwStatus = 0

\* A request for a registered path arrives: gin starts its chain.
MwArrive(path) ==
    /\ mwIndex = 0
    /\ mwPath' = path
    /\ mwIndex' = 1
    /\ mwTrace' = <<>>
    /\ mwStatus' = 0
    /\ UNCHANGED <<mwCfg, mwRoutes>>
    /\ UNCHANGED mwOthers

\* The handler at the request's position runs and calls c.Next(); the last
\* handler is the route's and answers.
MwNext ==
    /\ mwIndex > 0
    /\ LET stage == mwRoutes[mwPath][mwIndex]
       IN /\ mwTrace' = Append(mwTrace, stage)
          /\ mwIndex' = IF stage = "Dispatch" THEN 0 ELSE mwIndex + 1
          /\ mwStatus' = IF stage = "Dispatch" THEN 200 ELSE mwStatus
    /\ UNCHANGED <<mwCfg, mwRoutes, mwPath>>
    /\ UNCHANGED mwOthers

\* The handler at the request's position runs and aborts with its status.
MwAbort ==
    /\ mwIndex > 0
    /\ LET stage == mwRoutes[mwPath][mwIndex]
       IN /\ stage \in DOMAIN AbortStatus
          /\ mwTrace' = Append(mwTrace, stage)
          /\ mwStatus' = AbortStatus[stage]
    /\ mwIndex' = 0
    /\ UNCHANGED <<mwCfg, mwRoutes, mwPath>>
    /\ UNCHANGED mwOthers

NextMiddleware ==
    \/ \E path \in OpenRoutes \cup ProtectedRoutes : MwArrive(path)
    \/ MwNext
    \/ MwAbort

-----------------------------------------------------------------------------
(***************************************************************************)
(* Engine selection.  Setup validates the patterns of the routing rules    *)
(* against the configured engine, then makes the router of that engine.    *)
(* A pattern is a sequence of characters.                                  *)
(***************************************************************************)
\* the characters of strings.ContainsAny(path, ".*+?()|[]^$\\")
RegexChars == {".", "*", "+", "?", "(", ")", "|", "[", "]", "^", "$", "\\"}

\* The same without the backslash.
IsRegexPatternNoBackslash(path) == \E i \in 1..Len(path) : path[i] \in RegexChars \ {"\\"}

\* isRegexPattern
IsRegexPattern(path) == \E i \in 1..Len(path) : path[i] \in RegexChars

\* validateRules: TRUE when it ends the process.  The loop over the map
\* exits at the first regex pattern when the engine is neither
\* "trie-regexp" nor "regexp".
ValidateRulesExits(engine, patterns) ==
    \E path \in patterns : IsRegexPattern(path) /\ engine # "trie-regexp" /\ engine # "regexp"

\* Setup: the router of the engine, Gin for an unknown engine
RouterOf(engine) ==
    CASE engine = "trie" -> "TrieRouter"
      [] engine \in {"trie-regexp", "trie_regexp"} -> "TrieRegexpRouter"
      [] engine = "regexp" -> "RegexpRouter"
      [] OTHER -> "GinRouter"

Engines == {"trie", "trie-regexp", "trie_regexp", "regexp", "gin", "other"}

\* static patterns, one pattern for each regex character, and patterns that
\* carry a character which is none of them
ConfiguredPatterns ==
    {<<"/", "a">>, <<"/", "a", "/", "b">>, <<"/", "a", "-", "b">>, <<"/", ":", "i">>,
     <<"/", "{", "a", "}">>}
    \cup {<<"/", "a", ch>> : ch \in RegexChars}
    \cup {<<"/", "a", ".", "*">>, <<"\\", "d">>}

EngineInit ==
    /\ vrEngine \in Engines
    /\ vrPatterns \in {ps \in SUBSET ConfiguredPatterns : Cardinality(ps) <= 2}
    /\ vrPc = "start"
    /\ vrRouter = ""

EngineIdle ==
    /\ vrEngine = "gin"
    /\ vrPatterns = {}
    /\ vrPc = "start"
    /\ vrRouter = ""

\* Setup calls validateRules(cfg)
ValidateRules ==
    /\ vrPc = "start"
    /\ vrPc' = IF ValidateRulesExits(vrEngine, vrPatterns) THEN "exited" ELSE "validated"
    /\ UNCHANGED <<vrEngine, vrPatterns, vrRouter>>
    /\ UNCHANGED vrOthers

\* ... and makes the router of the engine
SetupRouter ==
    /\ vrPc = "validated"
    /\ vrRouter' = RouterOf(vrEngine)
    /\ vrPc' = "setup"
    /\ UNCHANGED <<vrEngine, vrPatterns>>
    /\ UNCHANGED vrOthers

NextEngine ==
    \/ ValidateRules
    \/ SetupRouter

-----------------------------------------------------------------------------
(***************************************************************************)
(* Shutdown.  The health checker runs startHeartbeat and, when the rate    *)
(* limiter is the leaky bucket, the limiter made in LeakyBucketRateLimit   *)
(* runs startLeak; each loop is a select over its ticker and its stop      *)
(* channel.  gracefulShutdown waits for the signal, cleans up tracing,     *)
(* closes the health checker and syncs the logger.                         *)
(***************************************************************************)
ShutdownInit ==
    /\ sdCfg \in [leaky : BOOLEAN, tracing : BOOLEAN]
    /\ sdPc = "serving"
    /\ sdCleanupCh = "open"
    /\ sdStopChan = "open"
    /\ sdHeartbeat = "select"
    /\ sdLeak = IF sdCfg.leaky THEN "select" ELSE "none"
    /\ sdBeats = 0
    /\ sdLeaks = 0
    /\ sdFlushed = FALSE

ShutdownIdle ==
    /\ sdCfg = [leaky |-> FALSE, tracing |-> FALSE]
    /\ sdPc = "serving"
    /\ sdCleanupCh = "open"
    /\ sdStopChan = "open"
    /\ sdHeartbeat = "select"
    /\ sdLeak = "none"
    /\ sdBeats = 0
    /\ sdLeaks = 0
    /\ sdFlushed = FALSE

\* startHeartbeat: case <-ticker.C (select may take it while cleanupCh is
\* closed too)
HeartbeatTick ==
    /\ sdHeartbeat = "select"
    /\ sdBeats < MaxBeats
    /\ sdHeartbeat' = "check"
    /\ UNCHANGED <<sdCfg, sdPc, sdCleanupCh, sdStopChan, sdLeak, sdBeats, sdLeaks, sdFlushed>>
    /\ UNCHANGED sdOthers

\* h.performHeartbeatCheck(); ticker.Reset
HeartbeatCheck ==
    /\ sdHeartbeat = "check"
    /\ sdHeartbeat' = "select"
    /\ sdBeats' = sdBeats + 1
    /\ UNCHANGED <<sdCfg, sdPc, sdCleanupCh, sdStopChan, sdLeak, sdLeaks, sdFlushed>>
    /\ UNCHANGED sdOthers

\* case <-h.cleanupCh: return
HeartbeatStop ==
    /\ sdHeartbeat = "select"
    /\ sdCleanupCh = "closed"
    /\ sdHeartbeat' = "returned"
    /\ UNCHANGED <<sdCfg, sdPc, sdCleanupCh, sdStopChan, sdLeak, sdBeats, sdLeaks, sdFlushed>>
    /\ UNCHANGED sdOthers

\* startLeak: the select takes a ready case, the ticker's or, once
\* l.stopChan is closed, the return
LeakTaskSelect ==
    /\ sdLeak = "select"
    /\ \E ready \in (IF sdLeaks < MaxBeats THEN {"ticker"} ELSE {})
                    \cup (IF sdStopChan = "closed" THEN {"stopChan"} ELSE {}) :
          sdLeak' = IF ready = "stopChan" THEN "returned" ELSE "leak"
    /\ UNCHANGED <<sdCfg, sdPc, sdCleanupCh, sdStopChan, sdHeartbeat, sdBeats, sdLeaks, sdFlushed>>
    /\ UNCHANGED sdOthers

\* one request leaves the queue under the mutex
LeakTaskLeak ==
    /\ sdLeak = "leak"
    /\ sdLeak' = "select"
    /\ sdLeaks' = sdLeaks + 1
    /\ UNCHANGED <<sdCfg, sdPc, sdCleanupCh, sdStopChan, sdHeartbeat, sdBeats, sdFlushed>>
    /\ UNCHANGED sdOthers

\* gracefulShutdown after <-quit, one statement at a time:
\* s.TracingCleanup when tracing is set up, then
\* health.GetGlobalHealthChecker().Close(), then logger.Sync()
GracefulShutdown(pc) ==
    CASE pc = "serving" ->
            [pc |-> IF sdCfg.tracing THEN "tracing" ELSE "close", cleanupCh |-> sdCleanupCh,
             stopChan |-> sdStopChan, flushed |-> sdFlushed]
      [] pc = "tracing" ->
            [pc |-> "close", cleanupCh |-> sdCleanupCh, stopChan |-> sdStopChan,
             flushed |-> sdFlushed]
      [] pc = "close" ->
            [pc |-> "sync", cleanupCh |-> "closed", stopChan |-> sdStopChan,
             flushed |-> sdFlushed]
      [] OTHER ->
            [pc |-> "done", cleanupCh |-> sdCleanupCh, stopChan |-> sdStopChan,
             flushed |-> TRUE]

ShutdownStep ==
    /\ sdPc # "done"
    /\ LET next == GracefulShutdown(sdPc)
       IN /\ sdPc' = next.pc
          /\ sdCleanupCh' = next.cleanupCh
          /\ sdStopChan' = next.stopChan
          /\ sdFlushed' = next.flushed
    /\ UNCHANGED <<sdCfg, sdHeartbeat, sdLeak, sdBeats, sdLeaks>>
    /\ UNCHANGED sdOthers

NextShutdown ==
    \/ HeartbeatTick
    \/ HeartbeatCheck
    \/ HeartbeatStop
    \/ LeakTaskSelect
    \/ LeakTaskLeak
    \/ ShutdownStep

-----------------------------------------------------------------------------
(***************************************************************************)
(* The object pool.  A route's handler holds the rule list of its pattern, *)
(* a slice over a backing array.  filterRules takes a slice from rulesPool *)
(* (or makes one), appends the rules of the request's environment to it    *)
(* and returns it; on the canary fall-back it returns the route's own      *)
(* slice.  The handler puts the returned slice into the pool when the      *)
(* request is over.  An array is named by the pattern whose rule list it   *)
(* backs; FreshArray stands for every array that backs no rule list.       *)
(***************************************************************************)
PoolRoutes == {"/r", "/u"}

FreshArray == "fresh"

\* The rule lists of the configuration: with and without canary rules.
PoolRuleLists ==
    { <<Rule("A", 1, defaultEnv)>>,
      <<Rule("A", 1, defaultEnv), Rule("B", 1, defaultEnv)>>,
      <<Rule("C", 1, canaryEnv)>>,
      <<Rule("C", 1, canaryEnv), Rule("D", 1, defaultEnv)>> }

\* getRules: a slice of the pool (sync.Pool hands out any it holds, or a
\* new one), reset to length 0; a new slice when the pool is disabled
GetRules(enabled, pool) == IF enabled THEN pool \cup {FreshArray} ELSE {FreshArray}

\* The array after the appends of filterRules when it backs a rule list:
\* the canary loop appends rule by rule and writes until the capacity is
\* used up; append(filtered, rules...) writes when all of them fit.
AppendInto(array, selected, oneByOne) ==
    LET n == IF Len(selected) <= Len(array) THEN Len(selected)
             ELSE IF oneByOne THEN Len(array) ELSE 0
    IN [i \in 1..Len(array) |-> IF i <= n THEN selected[i] ELSE array[i]]

\* filterRules with the slice it got: the arrays afterwards and the array
\* of the slice it returns.
PoolFilterRules(arrays, path, env, got) ==
    LET rules == arrays[path]
        selected == IF env = canaryEnv THEN SelectCanary(rules) ELSE rules
        fits == got # FreshArray /\ Len(selected) <= Len(arrays[got])
    IN IF env = canaryEnv /\ Len(selected) = 0
       THEN [arrays |-> arrays, returned |-> path]
       ELSE [arrays |-> IF got = FreshArray THEN arrays
                        ELSE [arrays EXCEPT ![got] = AppendInto(@, selected, env = canaryEnv)],
             returned |-> IF fits THEN got ELSE FreshArray]

\* putRules: the slice goes into rulesPool when the pool is enabled.
PutRules(enabled, pool, returned) ==
    IF enabled /\ returned # FreshArray THEN pool \cup {returned} ELSE pool

PoolInit ==
    /\ plEnabled \in BOOLEAN
    /\ plConfigured \in [PoolRoutes -> PoolRuleLists]
    /\ plArrays = plConfigured
    /\ plPool = {}
    /\ plRequests = 0

PoolIdle ==
    /\ plEnabled = FALSE
    /\ plConfigured = [path \in PoolRoutes |-> <<Rule("A", 1, defaultEnv)>>]
    /\ plArrays = plConfigured
    /\ plPool = {}
    /\ plRequests = 0

\* createHTTPHandler for a request of path with X-Env env: filterRules,
\* the proxying, the deferred putRules.
PoolHandleRequest(path, env, got) ==
    /\ plRequests < MaxPoolRequests
    /\ got \in GetRules(plEnabled, plPool)
    /\ LET f == PoolFilterRules(plArrays, path, env, got)
       IN /\ plArrays' = f.arrays
          /\ plPool' = PutRules(plEnabled, plPool \ {got}, f.returned)
    /\ plRequests' = plRequests + 1
    /\ UNCHANGED <<plEnabled, plConfigured>>
    /\ UNCHANGED plOthers

NextPool ==
    \E path \in PoolRoutes, env \in HeaderEnvs, got \in PoolRoutes \cup {FreshArray} :
        PoolHandleRequest(path, env, got)

-----------------------------------------------------------------------------
(***************************************************************************)
(* The lock of the health checker.  h.mu is a sync.RWMutex: any number of  *)
(* readers or one writer.  performHeartbeatCheck takes it with RLock and   *)
(* writes LastProbeTime and the probe counters of every status in turn;    *)
(* UpdateRequestCount takes it with Lock and writes the business counters  *)
(* of one status; GetAllStats takes it with RLock and copies every status. *)
(***************************************************************************)
HeartbeatThread == "heartbeat"

ProxyThreads == {"proxy"}

StatusThreads == {"status1", "status2"}

HlThreads == {HeartbeatThread} \cup ProxyThreads \cup StatusThreads

\* The statuses of h.targetStats.
HlStatuses == {"h1", "h2"}

\* The lock each function takes: RLock in performHeartbeatCheck and
\* GetAllStats, Lock in UpdateRequestCount.
TakesWriteLock(t) == t \in ProxyThreads

\* The same with performHeartbeatCheck under Lock.
TakesWriteLockForProbes(t) == t \in ProxyThreads \cup {HeartbeatThread}

\* The threads that write the status they have in hand.
WritesStatus(t) == t \in ProxyThreads \cup {HeartbeatThread}

Holds(t) == t \in hlReaders \/ hlWriter = t

HealthLockInit ==
    /\ hlReaders = {}
    /\ hlWriter = ""
    /\ hlVisited = [t \in HlThreads |-> {}]
    /\ hlTarget = [t \in HlThreads |-> ""]

HealthLockIdle == HealthLockInit

\* h.mu.RLock() or h.mu.Lock() at the start of the function
HlAcquire(t) ==
    /\ ~Holds(t)
    /\ hlWriter = ""
    /\ IF TakesWriteLock(t)
       THEN hlReaders = {} /\ hlWriter' = t /\ UNCHANGED hlReaders
       ELSE hlReaders' = hlReaders \cup {t} /\ UNCHANGED hlWriter
    /\ UNCHANGED <<hlVisited, hlTarget>>
    /\ UNCHANGED hlOthers

\* The function turns to a status: the next of the range over the map
\* (in any order), or the one of the request's target.
HlBegin(t, status) ==
    /\ Holds(t)
    /\ hlTarget[t] = ""
    /\ status \notin hlVisited[t]
    /\ t \in ProxyThreads => hlVisited[t] = {}
    /\ hlTarget' = [hlTarget EXCEPT ![t] = status]
    /\ UNCHANGED <<hlReaders, hlWriter, hlVisited>>
    /\ UNCHANGED hlOthers

\* ... and is done with it
HlEnd(t) ==
    /\ hlTarget[t] # ""
    /\ hlVisited' = [hlVisited EXCEPT ![t] = @ \cup {hlTarget[t]}]
    /\ hlTarget' = [hlTarget EXCEPT ![t] = ""]
    /\ UNCHANGED <<hlReaders, hlWriter>>
    /\ UNCHANGED hlOthers

\* The deferred RUnlock or Unlock when the function returns.
HlRelease(t) ==
    /\ Holds(t)
    /\ hlTarget[t] = ""
    /\ IF t \in ProxyThreads THEN hlVisited[t] # {} ELSE hlVisited[t] = HlStatuses
    /\ hlReaders' = hlReaders \ {t}
    /\ hlWriter' = IF hlWriter = t THEN "" ELSE hlWriter
    /\ hlVisited' = [hlVisited EXCEPT ![t] = {}]
    /\ UNCHANGED hlTarget
    /\ UNCHANGED hlOthers

NextHealthLock ==
    \/ \E t \in HlThreads : HlAcquire(t)
    \/ \E t \in HlThreads, status \in HlStatuses : HlBegin(t, status)
    \/ \E t \in HlThreads : HlEnd(t)
    \/ \E t \in HlThreads : HlRelease(t)

-----------------------------------------------------------------------------
(***************************************************************************)
(* The sliding window of the breaker middleware (unnamed/part_017).        *)
(* Breaker() creates one TimeSlidingWindow when the middleware is built    *)
(* and the handler it returns records every request in it, then sets the   *)
(* two gauges under the label of the request's path.  A rate is the pair   *)
(* <<failed, total>>.  Each recorded outcome also carries the path of its  *)
(* request, which the code does not store and which no operator of the     *)
(* window reads: it is there to state properties of the routes.            *)
(***************************************************************************)
WindowRoutes == {"/a", "/b"}

Latencies == {1, 3}

\* cfg.Traffic.Breaker.WindowDuration, in seconds
WindowDuration == 1

\* TimeSlidingWindow.Update
WindowUpdate(requests, stat) == Append(requests, stat)

\* the body of the loop of TimeSlidingWindow.cleanup
WindowCleanup(requests, now) ==
    SelectSeq(requests, LAMBDA stat : now - stat.Timestamp <= WindowDuration)

Failed(requests) == Cardinality({i \in 1..Len(requests) : ~requests[i].Success})

\* TimeSlidingWindow.ErrorRate
ErrorRate(requests) ==
    IF Len(requests) = 0 THEN <<0, 1>> ELSE <<Failed(requests), Len(requests)>>

RECURSIVE TotalLatency(_)
TotalLatency(requests) ==
    IF requests = <<>> THEN 0 ELSE Head(requests).Latency + TotalLatency(Tail(requests))

\* TimeSlidingWindow.AvgLatency
AvgLatency(requests) ==
    IF Len(requests) = 0 THEN 0 ELSE TotalLatency(requests) \div Len(requests)

WindowInit ==
    /\ swRequests = <<>>
    /\ swNow = 0
    /\ swErrorRate = [path \in WindowRoutes |-> <<0, 1>>]
    /\ swLatency = [path \in WindowRoutes |-> 0]
    /\ swCount = 0

WindowIdle == WindowInit

\* The handler returned by Breaker(), after hystrix.Do has returned.
BreakerRecord(path, success, latency) ==
    /\ swCount < MaxWindowRequests
    /\ LET stat == [Success |-> success, Latency |-> latency, Timestamp |-> swNow,
                    path |-> path]
           window == WindowUpdate(swRequests, stat)
       IN  /\ swRequests' = window
           /\ swErrorRate' = [swErrorRate EXCEPT ![path] = ErrorRate(window)]
           /\ swLatency' = [swLatency EXCEPT ![path] = AvgLatency(window)]
    /\ swCount' = swCount + 1
    /\ UNCHANGED swNow
    /\ UNCHANGED swOthers

\* One tick of the cleanup goroutine.
CleanupTick ==
    /\ swRequests' = WindowCleanup(swRequests, swNow)
    /\ swRequests' # swRequests
    /\ UNCHANGED <<swNow, swErrorRate, swLatency, swCount>>
    /\ UNCHANGED swOthers

\* A second passes.
WindowClock ==
    /\ swNow < MaxClock
    /\ swNow' = swNow + 1
    /\ UNCHANGED <<swRequests, swErrorRate, swLatency, swCount>>
    /\ UNCHANGED swOthers

NextWindow ==
    \/ \E path \in WindowRoutes, success \in BOOLEAN, latency \in Latencies :
           BreakerRecord(path, success, latency)
    \/ CleanupTick
    \/ WindowClock

-----------------------------------------------------------------------------
(***************************************************************************)
(* The background tasks the middleware chain starts (unnamed/part_000).    *)
(* setupMiddleware builds a new router and new middlewares: with the       *)
(* leaky-bucket algorithm LeakyBucketRateLimit() makes a limiter, whose    *)
(* constructor starts startLeak; Breaker() makes a sliding window, whose   *)
(* constructor starts cleanup.  startLeak ends when Stop closes stopChan,  *)
(* which setupMiddleware and refreshConfig never call on the limiter of    *)
(* the chain they replace; cleanup has no way to end.                      *)
(***************************************************************************)
TaskConfigs ==
    [RateLimit : BOOLEAN, Algorithm : {"token_bucket", "leaky_bucket"},
     Breaker : BOOLEAN, BreakerEnabled : BOOLEAN]

\* setupMiddleware reaches NewLeakyBucketLimiter
StartsLeakTask(cfg) == cfg.RateLimit /\ cfg.Algorithm = "leaky_bucket"

\* setupMiddleware reaches NewTimeSlidingWindow
StartsPruner(cfg) == cfg.Breaker /\ cfg.BreakerEnabled

\* The goroutines running after setupMiddleware(cfg), tasks running before.
SetupMiddlewareTasks(tasks, cfg) ==
    [leak |-> tasks.leak + (IF StartsLeakTask(cfg) THEN 1 ELSE 0),
     pruners |-> tasks.pruners + (IF StartsPruner(cfg) THEN 1 ELSE 0)]

NoTasks == [leak |-> 0, pruners |-> 0]

\* NewServer: s.setupMiddleware(cfg)
TasksInit ==
    /\ tkCfg \in TaskConfigs
    /\ tkLeakTasks = SetupMiddlewareTasks(NoTasks, tkCfg).leak
    /\ tkPruners = SetupMiddlewareTasks(NoTasks, tkCfg).pruners
    /\ tkReloads = 0

TasksIdle ==
    /\ tkCfg = [RateLimit |-> FALSE, Algorithm |-> "token_bucket",
                Breaker |-> FALSE, BreakerEnabled |-> FALSE]
    /\ tkLeakTasks = 0
    /\ tkPruners = 0
    /\ tkReloads = 0

\* One round of refreshConfig's loop, for newCfg received on ConfigChan.
RefreshConfig(newCfg) ==
    /\ tkReloads < MaxTaskReloads
    /\ LET tasks == SetupMiddlewareTasks([leak |-> tkLeakTasks, pruners |-> tkPruners], newCfg)
       IN /\ tkLeakTasks' = tasks.leak
          /\ tkPruners' = tasks.pruners
    /\ tkCfg' = newCfg
    /\ tkReloads' = tkReloads + 1
    /\ UNCHANGED tkOthers

NextTasks == \E newCfg \in TaskConfigs : RefreshConfig(newCfg)

-----------------------------------------------------------------------------
(***************************************************************************)
(* The specifications.                                                     *)
(***************************************************************************)
InitLeaky == LeakyInit /\ RRIdle /\ WrrIdle /\ TrieIdle /\ TrrIdle /\ RegexpIdle /\ ProxyIdle /\ ServerIdle /\ TokenBucketIdle /\ BreakerIdle /\ KetamaIdle /\ HealthIdle /\ MiddlewareIdle /\ EngineIdle /\ ShutdownIdle /\ PoolIdle /\ HealthLockIdle /\ WindowIdle /\ TasksIdle

SpecLeaky == InitLeaky /\ [][NextLeaky]_vars

\* The scheduling of the limiter: a goroutine that can take a step takes
\* it; sync.Mutex hands the lock to a waiter that keeps asking; a select
\* with several ready cases picks each of them again and again.
SpecLeakyFair ==
    /\ SpecLeaky
    /\ \A c \in Callers : WF_vars(AllowSend(c))
    /\ SF_vars(LeakLock)
    /\ WF_vars(LeakDrain)
    /\ SF_vars(LeakStopped)

InitRR == RRInit /\ LeakyIdle /\ WrrIdle /\ TrieIdle /\ TrrIdle /\ RegexpIdle /\ ProxyIdle /\ ServerIdle /\ TokenBucketIdle /\ BreakerIdle /\ KetamaIdle /\ HealthIdle /\ MiddlewareIdle /\ EngineIdle /\ ShutdownIdle /\ PoolIdle /\ HealthLockIdle /\ WindowIdle /\ TasksIdle

SpecRR == InitRR /\ [][NextRR]_vars

InitWrr == WrrInit /\ LeakyIdle /\ RRIdle /\ TrieIdle /\ TrrIdle /\ RegexpIdle /\ ProxyIdle /\ ServerIdle /\ TokenBucketIdle /\ BreakerIdle /\ KetamaIdle /\ HealthIdle /\ MiddlewareIdle /\ EngineIdle /\ ShutdownIdle /\ PoolIdle /\ HealthLockIdle /\ WindowIdle /\ TasksIdle

SpecWrr == InitWrr /\ [][NextWrr]_vars

InitWrrFallback == WrrFallbackInit /\ LeakyIdle /\ RRIdle /\ TrieIdle /\ TrrIdle /\ RegexpIdle /\ ProxyIdle /\ ServerIdle /\ TokenBucketIdle /\ BreakerIdle /\ KetamaIdle /\ HealthIdle /\ MiddlewareIdle /\ EngineIdle /\ ShutdownIdle /\ PoolIdle /\ HealthLockIdle /\ WindowIdle /\ TasksIdle

SpecWrrFallback == InitWrrFallback /\ [][NextWrr]_vars

InitTrie == TrieInit /\ LeakyIdle /\ RRIdle /\ WrrIdle /\ TrrIdle /\ RegexpIdle /\ ProxyIdle /\ ServerIdle /\ TokenBucketIdle /\ BreakerIdle /\ KetamaIdle /\ HealthIdle /\ MiddlewareIdle /\ EngineIdle /\ ShutdownIdle /\ PoolIdle /\ HealthLockIdle /\ WindowIdle /\ TasksIdle

SpecTrie == InitTrie /\ [][NextTrie]_vars

InitTrr == TrrInit /\ LeakyIdle /\ RRIdle /\ WrrIdle /\ TrieIdle /\ RegexpIdle /\ ProxyIdle /\ ServerIdle /\ TokenBucketIdle /\ BreakerIdle /\ KetamaIdle /\ HealthIdle /\ MiddlewareIdle /\ EngineIdle /\ ShutdownIdle /\ PoolIdle /\ HealthLockIdle /\ WindowIdle /\ TasksIdle

SpecTrieRegexp == InitTrr /\ [][NextTrr]_vars

InitRegexp == RegexpInit /\ LeakyIdle /\ RRIdle /\ WrrIdle /\ TrieIdle /\ TrrIdle /\ ProxyIdle /\ ServerIdle /\ TokenBucketIdle /\ BreakerIdle /\ KetamaIdle /\ HealthIdle /\ MiddlewareIdle /\ EngineIdle /\ ShutdownIdle /\ PoolIdle /\ HealthLockIdle /\ WindowIdle /\ TasksIdle

SpecRegexp == InitRegexp /\ [][NextRegexp]_vars

InitProxy == ProxyInit /\ LeakyIdle /\ RRIdle /\ WrrIdle /\ TrieIdle /\ TrrIdle /\ RegexpIdle /\ ServerIdle /\ TokenBucketIdle /\ BreakerIdle /\ KetamaIdle /\ HealthIdle /\ MiddlewareIdle /\ EngineIdle /\ ShutdownIdle /\ PoolIdle /\ HealthLockIdle /\ WindowIdle /\ TasksIdle

SpecProxy == InitProxy /\ [][NextProxy]_vars

InitServer ==
    ServerInit /\ LeakyIdle /\ RRIdle /\ WrrIdle /\ TrieIdle /\ TrrIdle /\ RegexpIdle /\ ProxyIdle
        /\ TokenBucketIdle /\ BreakerIdle /\ KetamaIdle /\ HealthIdle /\ MiddlewareIdle /\ EngineIdle /\ ShutdownIdle /\ PoolIdle /\ HealthLockIdle /\ WindowIdle /\ TasksIdle

SpecReload == InitServer /\ [][NextServer]_vars

\* The other subsystems at rest.
RestIdle ==
    LeakyIdle /\ RRIdle /\ WrrIdle /\ TrieIdle /\ TrrIdle /\ RegexpIdle /\ ProxyIdle /\ ServerIdle

InitTokenBucket == TokenBucketInit /\ RestIdle /\ BreakerIdle /\ KetamaIdle /\ HealthIdle /\ MiddlewareIdle /\ EngineIdle /\ ShutdownIdle /\ PoolIdle /\ HealthLockIdle /\ WindowIdle /\ TasksIdle

SpecTokenBucket == InitTokenBucket /\ [][NextTokenBucket]_vars


InitBreaker == BreakerInit /\ RestIdle /\ TokenBucketIdle /\ KetamaIdle /\ HealthIdle /\ MiddlewareIdle /\ EngineIdle /\ ShutdownIdle /\ PoolIdle /\ HealthLockIdle /\ WindowIdle /\ TasksIdle

SpecBreaker == InitBreaker /\ [][NextBreaker]_vars


InitKetama == KetamaInit /\ RestIdle /\ TokenBucketIdle /\ BreakerIdle /\ HealthIdle /\ MiddlewareIdle /\ EngineIdle /\ ShutdownIdle /\ PoolIdle /\ HealthLockIdle /\ WindowIdle /\ TasksIdle

SpecKetama == InitKetama /\ [][NextKetama]_vars

\* One virtual node per target and one hash function, for concurrent requests.
InitKetamaConcurrent ==
    /\ InitKetama
    /\ ktReplicas = 1
    /\ ktHash[VnodeKey("A", 0)] = 0 /\ ktHash[VnodeKey("B", 0)] = 1 /\ ktHash[VnodeKey("C", 0)] = 2 /\ HealthLockIdle /\ WindowIdle /\ TasksIdle

SpecKetamaConcurrent == InitKetamaConcurrent /\ [][NextKetamaConcurrent]_vars


InitHealth == HealthInit /\ RestIdle /\ TokenBucketIdle /\ BreakerIdle /\ KetamaIdle /\ MiddlewareIdle /\ EngineIdle /\ ShutdownIdle /\ PoolIdle /\ HealthLockIdle /\ WindowIdle /\ TasksIdle

SpecHealth == InitHealth /\ [][NextHealth]_vars


InitMiddleware == MiddlewareInit /\ RestIdle /\ TokenBucketIdle /\ BreakerIdle /\ KetamaIdle /\ HealthIdle /\ EngineIdle /\ ShutdownIdle /\ PoolIdle /\ HealthLockIdle /\ WindowIdle /\ TasksIdle

SpecMiddleware == InitMiddleware /\ [][NextMiddleware]_vars


InitEngine == EngineInit /\ RestIdle /\ TokenBucketIdle /\ BreakerIdle /\ KetamaIdle /\ HealthIdle /\ MiddlewareIdle /\ ShutdownIdle /\ PoolIdle /\ HealthLockIdle /\ WindowIdle /\ TasksIdle

SpecEngine == InitEngine /\ [][NextEngine]_vars


InitShutdown == ShutdownInit /\ RestIdle /\ TokenBucketIdle /\ BreakerIdle /\ KetamaIdle /\ HealthIdle /\ MiddlewareIdle /\ EngineIdle /\ PoolIdle /\ HealthLockIdle /\ WindowIdle /\ TasksIdle

SpecShutdown == InitShutdown /\ [][NextShutdown]_vars


InitPool == PoolInit /\ RestIdle /\ TokenBucketIdle /\ BreakerIdle /\ KetamaIdle /\ HealthIdle /\ MiddlewareIdle /\ EngineIdle /\ ShutdownIdle /\ HealthLockIdle /\ WindowIdle /\ TasksIdle

SpecPool == InitPool /\ [][NextPool]_vars


InitHealthLock == HealthLockInit /\ RestIdle /\ TokenBucketIdle /\ BreakerIdle /\ KetamaIdle /\ HealthIdle /\ MiddlewareIdle /\ EngineIdle /\ ShutdownIdle /\ PoolIdle /\ WindowIdle /\ TasksIdle

SpecHealthLock == InitHealthLock /\ [][NextHealthLock]_vars


InitWindow == WindowInit /\ RestIdle /\ TokenBucketIdle /\ BreakerIdle /\ KetamaIdle /\ HealthIdle /\ MiddlewareIdle /\ EngineIdle /\ ShutdownIdle /\ PoolIdle /\ HealthLockIdle /\ TasksIdle

SpecWindow == InitWindow /\ [][NextWindow]_vars


InitTasks == TasksInit /\ RestIdle /\ TokenBucketIdle /\ BreakerIdle /\ KetamaIdle /\ HealthIdle /\ MiddlewareIdle /\ EngineIdle /\ ShutdownIdle /\ PoolIdle /\ HealthLockIdle /\ WindowIdle

SpecTasks == InitTasks /\ [][NextTasks]_vars

-----------------------------------------------------------------------------
(***************************************************************************)
(* C1: a request with X-Env: canary on a route with at least one canary    *)
(* rule is, under every load-balancing policy, proxied only to the target  *)
(* of a canary rule; on a route without a canary rule the candidates       *)
(* passed to the balancer are the targets of the full rule list.           *)
(***************************************************************************)
C1_CanaryTarget ==
    (hpResponse.env = canaryEnv /\ hpResponse.status # 500) =>
        IF Len(SelectCanary(hpRules)) > 0
        THEN hpResponse.target # NoTarget =>
                hpResponse.target \in Range(ExtractTargets(SelectCanary(hpRules)))
        ELSE hpResponse.candidates = ExtractTargets(hpRules)

-----------------------------------------------------------------------------
-----------------------------------------------------------------------------
(***************************************************************************)
(* C5: in the trie+regex engine, a pattern with regex metacharacters that  *)
(* was inserted with TrieRegexp.Insert is found by TrieRegexp.Search for   *)
(* exactly the request paths that the pattern, anchored as ^...$, matches  *)
(* in full, and Search then returns that pattern's rules.  Stated for the  *)
(* engine holding that one regex pattern and no static pattern.            *)
(***************************************************************************)
C5_RegexFullMatch ==
    (Len(trrRegexes) = 1 /\ DOMAIN trrStatic = {}) =>
        \A p \in RequestPaths :
            TrrSearch(trrNodes, p) =
                IF MatchString(Anchored(trrRegexes[1].pattern), p)
                THEN [rules |-> trrRegexes[1].rules, found |-> TRUE]
                ELSE NotFound

(***************************************************************************)
(* C6: in the trie+regex engine, the static part of Search declares no     *)
(* match at a missing child: a request path that is not a registered       *)
(* static pattern (it only continues past one with extra characters) and   *)
(* that the root's regex does not match is not found.                      *)
(***************************************************************************)
C6_StaticNoPartialMatch ==
    \A p \in RequestPaths :
        (/\ TrimPrefix(p) \notin DOMAIN trrStatic
         /\ ~(/\ trrNodes[<<>>].Regex # NilRegex
              /\ MatchString(trrNodes[<<>>].Regex, p)))
        => ~TrrSearch(trrNodes, p).found

-----------------------------------------------------------------------------
(***************************************************************************)
(* C7: for a fixed rule set, resolution by the regex engine is             *)
(* deterministic: a request for the same path as the request before it     *)
(* gets the same answer (the same rules), also when the path matches       *)
(* several registered patterns.                                            *)
(***************************************************************************)
C7_RegexpDeterministic ==
    (rePrev # NoRequest /\ reResponse.path = rePrev.path) =>
        reResponse.response = rePrev.response

-----------------------------------------------------------------------------
(***************************************************************************)
(* C8: once refreshConfig has processed a snapshot, every request that     *)
(* arrives afterwards is served by the middleware chain and route table    *)
(* built from it: the engine that serves a request is not older than the   *)
(* last snapshot processed when the request arrived.                       *)
(***************************************************************************)
C8_ServedByReloaded ==
    (rqObs.engine # NotStarted /\ rqObs.arrivedAfter >= 1) =>
        rqObs.engine >= rqObs.arrivedAfter

(***************************************************************************)
(* C9: a request running concurrently with a reload never reads a          *)
(* subsystem's state while it is being replaced: the load balancer a       *)
(* request has read from hp.loadBalancer is one balancer as a whole, its   *)
(* type being the type of the balancer its data belongs to.                *)
(***************************************************************************)
C9_SwapNotObservedHalfway ==
    rqObs.status = 200 =>
        rqObs.lbType = srvEngines[rqObs.lbData].cfg.loadBalancer

-----------------------------------------------------------------------------
(***************************************************************************)
(* C10: in every reachable state of LeakyBucketLimiter, under any          *)
(* interleaving of Allow calls and leak ticks, the number of entries in    *)
(* the queue is between 0 and burst.                                       *)
(***************************************************************************)
C10_QueueWithinBurst == 0 <= queue /\ queue <= capacity

\* The bucket is full and a caller has just been turned away.
C10_Witness ==
    /\ capacity > 0
    /\ queue = capacity
    /\ \E c \in Callers : allowResult[c] = "false"

-----------------------------------------------------------------------------
(***************************************************************************)
(* C11: Allow does not wait on the queue: holding the mutex it returns     *)
(* true exactly when the queue holds fewer than burst entries, adding one  *)
(* entry, and returns false otherwise, leaving the queue unchanged; a      *)
(* leak tick removes exactly one entry from a non-empty queue and none     *)
(* from an empty one.                                                      *)
(***************************************************************************)
C11_AllowAndLeakSteps ==
    [][/\ \A c \in Callers :
            (allowPc[c] = "locked" /\ allowPc'[c] = "idle") =>
                IF queue < capacity
                THEN queue' = queue + 1 /\ allowResult'[c] = "true"
                ELSE queue' = queue /\ allowResult'[c] = "false"
       /\ (leakPc = "locked" /\ leakPc' = "select") =>
                IF queue > 0 THEN queue' = queue - 1 ELSE queue' = 0
       /\ queue' # queue =>
                \/ \E c \in Callers : allowPc[c] = "locked" /\ allowPc'[c] = "idle"
                \/ leakPc = "locked" /\ leakPc' = "select"]_vars

\* burst = 2: two callers were admitted and filled the bucket, the third
\* call was turned away.
C11_Witness ==
    /\ capacity = 2
    /\ queue = 2
    /\ allowResult[1] = "true"
    /\ allowResult[2] = "false"

-----------------------------------------------------------------------------
(***************************************************************************)
(* C13: the token-bucket middleware admits a request if and only if the    *)
(* limiter imposed no wait on it: a request is answered 429 only when it   *)
(* was throttled, and passed downstream when its token was available at    *)
(* once.                                                                   *)
(***************************************************************************)
C13_AdmitIffNoWait ==
    \A c \in TbCallers :
        tbStatus[c] # 0 => (tbStatus[c] = 200 <=> ~tbThrottled[c])

(***************************************************************************)
(* C14: under the token-bucket limiter with parameters QPS and burst, the  *)
(* number of requests admitted by the middleware in any interval of one    *)
(* second is at most QPS + burst.                                          *)
(***************************************************************************)
RECURSIVE AdmittedIn(_, _)
AdmittedIn(from, to) ==
    IF from > to THEN 0
    ELSE (IF from \in DOMAIN tbAdmitted THEN tbAdmitted[from] ELSE 0) + AdmittedIn(from + 1, to)

C14_AdmittedPerSecond ==
    \A t \in 1..MaxTime : AdmittedIn(t, t + Second(tbQps) - 1) <= tbQps + tbBurst

\* After a pause the limiter has let burst + 1 requests through at one
\* instant.
C14_Witness ==
    /\ tbBurst = 1
    /\ \E t \in 1..MaxTime : tbAdmitted[t] = 2

-----------------------------------------------------------------------------
-----------------------------------------------------------------------------
(***************************************************************************)
(* C15: with the breaker's errorRate configured as 0, no request is ever   *)
(* answered 503 by the breaker's fallback, whatever the outcomes and       *)
(* latencies of earlier requests, as long as no request has run longer     *)
(* than the timeout.                                                       *)
(***************************************************************************)
C15_NeverShortCircuited ==
    (brErrorRate = 0 /\ ~brTimedOut) => \A c \in BrCallers : ~brFallback[c]

-----------------------------------------------------------------------------
(***************************************************************************)
(* C16: while the target list is unchanged, every Ketama.SelectTarget      *)
(* call for a request from the same client IP returns the same target:     *)
(* the target a call is about to return from the ring of its candidates    *)
(* is the target of every connection of that client; and a ring rebuilt    *)
(* from the same targets maps every key as the ring in place does.         *)
(***************************************************************************)
C16_SameClientSameTarget ==
    /\ \A c \in KtCallers :
          (ktPc[c] = "lookup" /\ ktNodes = ktCall[c].targets) =>
              \A conn \in RemoteAddrs :
                  conn.ip = ktCall[c].conn.ip =>
                      Lookup(ktHashRing, ktHashMap, ktNodes, ktHash[RemoteAddr(conn)])
                          = Lookup(ktHashRing, ktHashMap, ktNodes,
                                   ktHash[RemoteAddr(ktCall[c].conn)])
    /\ ktNodes # <<>> =>
          LET ring == BuildRing(ktNodes, ktReplicas, ktHash)
          IN \A key \in HashSpace :
                 Lookup(ring.hashRing, ring.hashMap, ktNodes, key)
                     = Lookup(ktHashRing, ktHashMap, ktNodes, key)

(***************************************************************************)
(* C17: when a rebuild takes the ring from the targets S to S without one  *)
(* target B (the others in their order), every key that the ring of S      *)
(* mapped to a target other than B                                         *)
(* is mapped to the same target by the new ring: only keys that were       *)
(* mapped to B change target.                                              *)
(***************************************************************************)
C17_RemovalKeepsOthers ==
    [][ (ktNodes # <<>> /\ ktNodes' # <<>> /\ ktNodes' # ktNodes
            /\ \E b \in Range(ktNodes) : ktNodes' = Without(ktNodes, b)) =>
        LET b == Dropped(ktNodes, ktNodes')
        IN \A key \in HashSpace :
               Lookup(ktHashRing, ktHashMap, ktNodes, key) # b =>
                   Lookup(ktHashRing', ktHashMap', ktNodes', key)
                       = Lookup(ktHashRing, ktHashMap, ktNodes, key) ]_vars

\* A rebuild has dropped one target from a ring of two virtual nodes per
\* target, and a key that was given to the dropped target has moved.
C17_Witness ==
    /\ ktRemoved # NoTarget
    /\ ktReplicas = 2
    /\ \E key \in HashSpace :
          LET old == BuildRing(<<"A", "B", "C">>, ktReplicas, ktHash)
          IN /\ Lookup(old.hashRing, old.hashMap, old.nodes, key) = ktRemoved
             /\ Lookup(ktHashRing, ktHashMap, ktNodes, key) # ktRemoved

-----------------------------------------------------------------------------
(***************************************************************************)
(* C18: over any sequence of heartbeat checks, forwarded requests and      *)
(* reloads, no counter reported for a target (RequestCount, SuccessCount,  *)
(* FailureCount, ProbeRequestCount, ProbeSuccessCount, ProbeFailureCount)  *)
(* is ever below the value reported for that target before.                *)
(***************************************************************************)
Counters ==
    {"RequestCount", "SuccessCount", "FailureCount",
     "ProbeRequestCount", "ProbeSuccessCount", "ProbeFailureCount"}

C18_CountersNeverDecrease ==
    [][ \A h \in DOMAIN targetStats' \cap DOMAIN hcLast :
            \A k \in Counters : targetStats'[h][k] >= hcLast[h][k] ]_vars

\* C18 as it holds: no step lowers a counter of a target that is in the
\* table before and after it.
C18_CountersNeverDecreaseWhileListed ==
    [][ \A h \in DOMAIN targetStats' \cap DOMAIN targetStats :
            \A k \in Counters : targetStats'[h][k] >= targetStats[h][k] ]_vars

\* Heartbeat checks, forwarded requests and reloads have all happened, and
\* a target that went through every check has counted them and a request.
C18_Witness ==
    /\ hcRefreshes > 0
    /\ hcTicks > 1
    /\ \E h \in DOMAIN targetStats :
          /\ targetStats[h].ProbeRequestCount = hcTicks
          /\ targetStats[h].ProbeFailureCount > 0
          /\ targetStats[h].ProbeSuccessCount > 0
          /\ targetStats[h].RequestCount > 0

(***************************************************************************)
(* C19: RefreshTargets rebuilds the table from the new configuration: a    *)
(* target in the table before and in the new configuration keeps all its   *)
(* counters, a target absent from the new configuration is removed, and a  *)
(* newly added target starts with all counters at zero.                    *)
(***************************************************************************)
\* The hosts of the rules whose target normalizes.
ConfiguredHosts(rules) ==
    {NormalizeTarget(rules[i]).host : i \in {j \in DOMAIN rules : ~NormalizeTarget(rules[j]).err}}

C19_RefreshKeepsSurvivors ==
    [][ hcRefreshes' # hcRefreshes =>
          /\ DOMAIN targetStats' = ConfiguredHosts(hcCfg')
          /\ \A h \in DOMAIN targetStats' :
                \A k \in Counters :
                    targetStats'[h][k] = IF h \in DOMAIN targetStats THEN targetStats[h][k] ELSE 0 ]_vars

\* After heartbeat checks and a request, a reload has kept h1 with its
\* counters and added h2:1, which no check has probed yet.
C19_Witness ==
    /\ hcRefreshes > 0
    /\ DOMAIN targetStats = {"h1", "h2:1"}
    /\ targetStats["h1"].ProbeRequestCount > 0
    /\ targetStats["h1"].RequestCount > 0
    /\ \A k \in Counters : targetStats["h2:1"][k] = 0

-----------------------------------------------------------------------------
(***************************************************************************)
(* C21: under every load-balancing policy, SelectTarget called with an     *)
(* empty candidate list returns the empty string and leaves the balancer   *)
(* as it was, and the proxy then answers 503.                              *)
(***************************************************************************)
C21_EmptyCandidates ==
    [][ (hpCalls' # hpCalls /\ hpResponse'.candidates = <<>> /\ hpResponse'.status # 500) =>
          /\ hpResponse'.target = NoTarget
          /\ hpResponse'.status = 503
          /\ hpLoadBalancer' = hpLoadBalancer ]_vars

-----------------------------------------------------------------------------
(***************************************************************************)
(* C22: within one request the enabled middleware run strictly in the      *)
(* order panic recovery, request metrics, rate limit, IP ACL,              *)
(* anti-injection, authentication, circuit breaker, tracing, route         *)
(* dispatch; a disabled stage is skipped and the order of the others is    *)
(* as before.  The order the engine runs them in is panic recovery,        *)
(* request metrics, IP ACL, anti-injection, rate limit, circuit breaker,   *)
(* tracing, authentication, route dispatch.                                *)
(***************************************************************************)
StatedOrder ==
    <<"Recovery", "Metrics", "RateLimit", "IPAcl", "AntiInjection", "Auth", "Breaker",
      "Tracing", "Dispatch">>

EngineOrder ==
    <<"Recovery", "Metrics", "IPAcl", "AntiInjection", "RateLimit", "Breaker", "Tracing",
      "Auth", "Dispatch">>

Position(order, stage) == CHOOSE i \in 1..Len(order) : order[i] = stage

\* the stages run so far are in the given order, none twice
RunsInOrder(order) ==
    \A i, j \in 1..Len(mwTrace) :
        i < j => Position(order, mwTrace[i]) < Position(order, mwTrace[j])

StageEnabled(stage) ==
    \/ stage \in {"Recovery", "Metrics", "Dispatch"}
    \/ stage = "Auth" /\ mwCfg[stage] /\ mwPath \in ProtectedRoutes
    \/ stage \in MiddlewareSwitches \ {"Auth"} /\ mwCfg[stage]

\* only enabled stages run, and a request that was dispatched has run every
\* enabled stage
SkipsDisabledOnly ==
    /\ \A i \in 1..Len(mwTrace) : StageEnabled(mwTrace[i])
    /\ mwStatus = 200 =>
          \A i \in 1..Len(EngineOrder) :
              StageEnabled(EngineOrder[i]) => \E k \in 1..Len(mwTrace) : mwTrace[k] = EngineOrder[i]

-----------------------------------------------------------------------------
(***************************************************************************)
(* C23: validateRules ends the process whenever some configured pattern    *)
(* contains one of the characters . * + ? ( ) | [ ] ^ $ \ and the engine   *)
(* is trie or gin; isRegexPattern is true exactly for the patterns that    *)
(* contain at least one of these characters.                               *)
(***************************************************************************)
HasMetacharacter(path) ==
    \E i \in 1..Len(path) :
        \/ path[i] = "." \/ path[i] = "*" \/ path[i] = "+" \/ path[i] = "?"
        \/ path[i] = "(" \/ path[i] = ")" \/ path[i] = "|" \/ path[i] = "["
        \/ path[i] = "]" \/ path[i] = "^" \/ path[i] = "$" \/ path[i] = "\\"

C23_RegexRejectedByPlainEngines ==
    /\ \A path \in vrPatterns : IsRegexPattern(path) <=> HasMetacharacter(path)
    /\ (/\ vrPc # "start"
        /\ vrEngine \in {"trie", "gin"}
        /\ \E path \in vrPatterns : HasMetacharacter(path)) => vrPc = "exited"

C23_Witness ==
    /\ vrPc = "exited"
    /\ vrEngine = "gin"
    /\ vrPatterns = {<<"/", "a">>, <<"\\", "d">>}

-----------------------------------------------------------------------------
(***************************************************************************)
(* C24: validateRules does not end the process when no configured pattern  *)
(* contains a regex metacharacter, nor when some pattern does and the      *)
(* engine is trie_regexp or regexp.                                        *)
(***************************************************************************)
C24_RegexEnginesAccepted ==
    (/\ vrPc # "start"
     /\ \/ \A path \in vrPatterns : ~HasMetacharacter(path)
        \/ vrEngine \in {"trie_regexp", "regexp"}) => vrPc # "exited"

-----------------------------------------------------------------------------
(***************************************************************************)
(* C25: a trailing slash is trimmed in every engine: for every registered  *)
(* static pattern p, resolving the request path p + "/" gives the same     *)
(* rules as resolving p, in Trie.Search and in TrieRegexp.Search.  Stated  *)
(* here for the trie+regex engine and the patterns p for which p + "/" is  *)
(* not a registered pattern itself.                                        *)
(***************************************************************************)
C25_TrailingSlashTrimmed ==
    \A p \in DOMAIN trrStatic :
        Append(p, "/") \notin DOMAIN trrStatic =>
            TrrSearch(trrNodes, <<"/">> \o p \o <<"/">>) = TrrSearch(trrNodes, <<"/">> \o p)

-----------------------------------------------------------------------------
-----------------------------------------------------------------------------
(***************************************************************************)
(* C27: a snapshot with an unknown rate-limit algorithm is fatal only at   *)
(* startup; when it arrives as a reload it is rejected and the gateway     *)
(* keeps running with the configuration it had.                            *)
(***************************************************************************)
C27_InvalidReloadRejected ==
    \A k \in DOMAIN srvEngines :
        (k > 0 /\ srvEngines[k].cfg.algorithm = "unknown") =>
            /\ ~srvExited
            /\ reloadPc \in {"wait", "use"}

-----------------------------------------------------------------------------
(***************************************************************************)
(* C28: on a termination signal the shutdown closes the stop channel of    *)
(* the health-check loop and the stop channel of the leaky-bucket limiter  *)
(* before the logger is flushed, so that no heartbeat loop and no leak     *)
(* task runs after the shutdown.                                           *)
(***************************************************************************)
C28_ShutdownStopsTasks ==
    sdFlushed =>
        /\ sdCleanupCh = "closed"
        /\ sdCfg.leaky => sdStopChan = "closed"

-----------------------------------------------------------------------------
(***************************************************************************)
(* C29: for every forwarded request the proxy calls UpdateRequestCount     *)
(* exactly once, with true after a success and with false after a          *)
(* transport error, so the request raises the RequestCount of its target   *)
(* by one and one of SuccessCount and FailureCount by one, and             *)
(* RequestCount = SuccessCount + FailureCount always.  Stated for the      *)
(* targets the health checker lists: a forwarded request raises no         *)
(* RequestCount by more than one.                                          *)
(***************************************************************************)
C29_OneUpdatePerRequest ==
    /\ [][ hcForwarded' # hcForwarded =>
             \A h \in DOMAIN targetStats :
                 /\ targetStats'[h].RequestCount - targetStats[h].RequestCount \in {0, 1}
                 /\ (targetStats'[h].SuccessCount - targetStats[h].SuccessCount)
                      + (targetStats'[h].FailureCount - targetStats[h].FailureCount)
                    = targetStats'[h].RequestCount - targetStats[h].RequestCount ]_vars
    /\ [](\A h \in DOMAIN targetStats :
             targetStats[h].RequestCount
               = targetStats[h].SuccessCount + targetStats[h].FailureCount)

-----------------------------------------------------------------------------
(***************************************************************************)
(* C30: whatever the load-balancing policy, a non-empty result of          *)
(* SelectTarget is an element of the candidate list passed in that call.   *)
(***************************************************************************)
C30_TargetAmongCandidates ==
    (hpCalls > 0 /\ hpResponse.target # NoTarget) =>
        hpResponse.target \in Range(hpResponse.candidates)

-----------------------------------------------------------------------------
(***************************************************************************)
(* C31: handling requests never changes the route table: after any         *)
(* sequence of requests, with any X-Env value, the canary fall-back        *)
(* included, and with the memory pool enabled or disabled, the rule list   *)
(* stored for every pattern equals the list built from the configuration.  *)
(***************************************************************************)
C31_RouteTableUnchanged == \A path \in PoolRoutes : plArrays[path] = plConfigured[path]

-----------------------------------------------------------------------------
(***************************************************************************)
(* C32: when several requests call Ketama.SelectTarget at the same time    *)
(* with different candidate lists, each call returns a member of its own   *)
(* candidate list: in every interleaving of the check, rebuild and lookup  *)
(* steps the ring a call looks up is the ring built for its candidates.    *)
(***************************************************************************)
C32_OwnCandidates ==
    [][ \A c \in KtCallers :
            (ktPc[c] = "lookup" /\ ktPc'[c] = "idle") =>
                /\ ktNodes = ktCall[c].targets
                /\ ktResponse'.target \in Range(ktCall[c].targets) ]_vars

-----------------------------------------------------------------------------
(***************************************************************************)
(* C33: every mutation of a TargetStatus (the probe counters and           *)
(* LastProbeTime written by the heartbeat, the business counters written   *)
(* by UpdateRequestCount) excludes every other access to that status, the  *)
(* copy taken by GetAllStats included: no thread reads or writes a status  *)
(* while another thread is writing it.                                     *)
(***************************************************************************)
C33_WritesExclusive ==
    \A writer, other \in HlThreads :
        (/\ writer # other
         /\ WritesStatus(writer)
         /\ hlTarget[writer] # "") => hlTarget[other] # hlTarget[writer]

-----------------------------------------------------------------------------
(***************************************************************************)
(* C34: for every request that passes through the breaker, at most one of  *)
(* the downstream handler and the breaker's fallback writes the response:  *)
(* when the fallback answers 503 (timeout, concurrency cap or open         *)
(* circuit), the downstream handler of that request does not write to the  *)
(* same response, in any interleaving.                                     *)
(***************************************************************************)
C34_OneWriter ==
    \A c \in BrCallers : "fallback" \in brWriters[c] => "downstream" \notin brWriters[c]

(***************************************************************************)
(* C35: the error rate and the average latency exported for a route are    *)
(* computed only from the recorded outcomes of requests to that route:     *)
(* whenever a gauge of a path is set, its value is the one of the window   *)
(* restricted to the outcomes of that path.                                *)
(***************************************************************************)
OfRoute(requests, path) == SelectSeq(requests, LAMBDA stat : stat.path = path)

SameRate(r, q) == r[1] * q[2] = q[1] * r[2]

C35_OwnWindow ==
    [][\A path \in WindowRoutes :
          (swCount' = swCount + 1 /\ swRequests'[Len(swRequests')].path = path) =>
              /\ SameRate(swErrorRate'[path], ErrorRate(OfRoute(swRequests', path)))
              /\ swLatency'[path] = AvgLatency(OfRoute(swRequests', path))]_vars

(***************************************************************************)
(* C36: after several regex patterns have been inserted into the           *)
(* trie+regex engine each of them stays resolvable: a request path that    *)
(* the compiled form of an inserted regex pattern matches, that no other   *)
(* inserted regex pattern matches and that the static part of Search does  *)
(* not resolve, resolves to the rules of that pattern.                     *)
(***************************************************************************)
Compiled(route) == RegexpCompile(Anchored(TrimPrefix(route.pattern))).re

StaticHit(nodes, path) == nodes[TrrWalk(nodes, <<>>, TrimPrefix(path))].IsEnd

C36_EarlierRegexResolvable ==
    \A i \in 1..Len(trrRegexes) : \A p \in RequestPaths :
        ( /\ MatchString(Compiled(trrRegexes[i]), p)
          /\ ~StaticHit(trrNodes, p)
          /\ \A j \in 1..Len(trrRegexes) :
                 j # i => ~MatchString(Compiled(trrRegexes[j]), p) )
        => TrrSearch(trrNodes, p) = [rules |-> trrRegexes[i].rules, found |-> TRUE]

(***************************************************************************)
(* C37: a matched pattern whose rule list is empty never crashes the       *)
(* request: the routing middleware of the trie+regex engine never answers  *)
(* a request through the panic of indexing into an empty rule list.        *)
(***************************************************************************)
C37_EmptyRulesNoCrash ==
    \A p \in RequestPaths :
        (TrrSearch(trrNodes, p).found /\ Len(TrrSearch(trrNodes, p).rules) = 0)
            => trrResponse # RoutePanic

(***************************************************************************)
(* C38: when WeightedRoundRobin has no state for the request path, or the  *)
(* state has no targets, and at least two candidates are passed,           *)
(* SelectTarget falls back to round-robin over the candidates: successive  *)
(* calls with the same candidates return candidates, each one the          *)
(* successor, in the cyclic order of the list, of the one before.          *)
(***************************************************************************)
IndexOf(cands, target) == CHOOSE i \in 1..Len(cands) : cands[i] = target

C38_FallbackRotates ==
    \A p \in WrrPaths :
        (p \notin DOMAIN wrrStates \/ Len(wrrStates[p].targets) = 0) =>
            LET cands == wrrRun[p].cands
                results == wrrRun[p].results
            IN /\ \A k \in 1..Len(results) : results[k] \in Range(cands)
               /\ \A k \in 1..(Len(results) - 1) :
                      results[k + 1] = cands[(IndexOf(cands, results[k]) % Len(cands)) + 1]

(***************************************************************************)
(* C39: when the registered weights of a path sum to 0, SelectTarget       *)
(* returns the empty string: every call for such a path with at least two  *)
(* candidates has returned "".                                             *)
(***************************************************************************)
C39_ZeroWeightNoTarget ==
    \A p \in DOMAIN wrrStates :
        (Len(wrrStates[p].targets) > 0 /\ wrrStates[p].totalWeight = 0) =>
            \A k \in 1..Len(wrrRun[p].results) : wrrRun[p].results[k] = NoTarget

(***************************************************************************)
(* C40: after any number of configuration reloads at most one leaky-bucket *)
(* leak task and at most one sliding-window pruner are running.            *)
(***************************************************************************)
C40_BoundedTasks == tkLeakTasks <= 1 /\ tkPruners <= 1

(***************************************************************************)
(* C2: for a path with registered weighted state (at least two targets,    *)
(* weights w_i, total W > 0) and a fixed candidate list, in every run of   *)
(* exactly W consecutive SelectTarget calls for that path, target i is     *)
(* returned exactly w_i times.                                             *)
(***************************************************************************)

\* How often x occurs in results[from..from + n - 1].
CountIn(results, from, n, x) == Cardinality({k \in from..(from + n - 1) : results[k] = x})

C2_WeightedWindows ==
    \A p \in DOMAIN wrrStates :
        LET state == wrrStates[p]
            W == state.totalWeight
            results == wrrRun[p].results
        IN (Len(state.targets) >= 2 /\ W > 0) =>
            \A from \in 1..(Len(results) - W + 1) :
                \A i \in 1..Len(state.targets) :
                    CountIn(results, from, W, state.targets[i]) = state.weights[i]

\* A run of more than W calls on weights 2 and 1.
C2_Witness ==
    /\ "/r" \in DOMAIN wrrStates
    /\ wrrStates["/r"].weights = <<2, 1>>
    /\ Len(wrrRun["/r"].results) > 3

-----------------------------------------------------------------------------
(***************************************************************************)
(* C3: with K concurrent callers of RoundRobin.SelectTarget on a fixed     *)
(* list of N targets, after M calls in total (every call returned) every   *)
(* target has been returned floor(M/N) or ceil(M/N) times.                 *)
(***************************************************************************)
C3_RoundRobinEven ==
    (\A c \in Callers : rrPc[c] = "idle") =>
        \A i \in 0..(rrN - 1) :
            \/ rrSelected[i] = rrCalls \div rrN
            \/ rrSelected[i] = (rrCalls + rrN - 1) \div rrN

====
